---- MODULE Spec2Model ----
(***************************************************************************)
(* Storefront client: search page matching and suggestion ranking, the     *)
(* product listing filter/sort pipeline and its collection cache, the      *)
(* cart drawer checkout hand-off, and the routing table.                   *)
(*                                                                         *)
(* Text is modelled as a sequence of one-character strings so that         *)
(* normalisation, tokenising and substring search are computed the way     *)
(* the JavaScript computes them.                                           *)
(***************************************************************************)
EXTENDS Integers, Sequences, FiniteSets, TLC

VARIABLES
    \* ---- search page (SearchPage.jsx) ----
    catalogProducts,    \* useCatalog().products
    searchParamsQ,      \* the URL's q parameter (Null when absent)
    limit,              \* third argument of buildSuggestions
    productResults,     \* useMemo productResults
    suggestions,        \* useMemo suggestions
    \* ---- product listing (AllProductsPage.jsx) ----
    active,             \* searchParams.get('category') ?? initialCategory
    collectionProducts, \* useState({}): category -> [stored, list]
    collectionLoading,  \* useState(false)
    selectedSizes,      \* useState([])
    availabilityFilter, \* useState('all')
    sortBy,             \* useState('featured')
    filteredAndSortedProducts,  \* useMemo: the displayed products
    inflight,           \* category of the ensureCollectionProducts call whose
                        \* effect is not cancelled, or NoCategory
    stale,              \* categories with a cancelled call still in flight
    lastRequested,      \* category the last step called ensureCollectionProducts
                        \* for, or NoCategory
    \* ---- cart drawer (CartDrawer.jsx) ----
    cartContextItems,   \* useCart().items: lines [slug, size, quantity]
    externalProducts,   \* useState({}): handles whose product the drawer fetched
    isCheckingOut,      \* useState(false)
    checkoutError,      \* useState(null)
    checkoutRun,        \* handleCheckout: its position and its locals
    locationHref,       \* window.location after assign(), Null before
    \* ---- product page (ProductDetails.jsx) ----
    pageSlug,           \* useParams().slug, or NoSlug while not mounted
    pageProduct,        \* useState product
    pageLoading,        \* useState loading
    pageError,          \* useState error (TRUE when set)
    selectedSize,       \* useState selectedSize
    focusSize,          \* location.state?.focusSize
    productFetchPending,\* fetchProductByHandle(slug) of the live effect is in flight
    relatedProducts,    \* useState relatedProducts
    loads,              \* the load() calls in flight: [slug, stage, cancelled]
    fetchIssued,        \* slug the last step called fetchProductByHandle for,
                        \* or NoSlug
    \* ---- search overlay (src/src/components/SearchOverlay.jsx) ----
    overlayOpen,        \* the open prop
    overlayQuery,       \* useState query
    overlayResults,     \* useState productResults
    overlayLoading,     \* useState loading
    overlaySearches,    \* the searchProducts calls in flight: [term, cancelled]
    \* ---- the search form and the recent searches ----
    inputText,          \* SearchPage useState query (the input's text)
    recentSearches,     \* useState recentSearches
    storedSearches,     \* localStorage['evrydae-recent-searches-v1']
    lastPersisted,      \* the term the last persistRecentSearch call that passed
                        \* its blank test put first, Null before any such call
    \* ---- product page: sizes and size chart ----
    chartProduct,       \* useState product, with its options, variants, metafields
    sizeChartOpen,      \* useState sizeChartOpen
    chartLoading,       \* useState loading, as the size chart section sees it
    chartFetchPending,  \* the current load() has not reached its finally
    sizeChartMemo,      \* the size chart useMemo: rows, html, image, file, columns
    sizeOptionsMemo,    \* useMemo sizeOptions
    \* ---- the recent searches of the overlay beside those of the page ----
    overlayRecents,     \* SearchOverlay useState recentSearches
    singleList,         \* the one list every persist, remove and clear is
                        \* applied to in the order they were issued
    \* ---- scroll lock (SearchOverlay, CartDrawer, Navbar) ----
    cartDrawerOpen,     \* CartDrawer's open prop
    mobileMenuOpen,     \* Navbar useState mobileMenuOpen
    overflowStyle,      \* [body, html]: the style.overflow of body and html
    previousOverflow,   \* per component: previousBodyOverflow and
                        \* previousHtmlOverflow of its effect's closure
    originalOverflow,   \* overflowStyle before anything was opened
    \* ---- cart context (contexts/cart-context) ----
    cartCalls,          \* the calls the last step made to the cart context:
                        \* [op, handle, size]
    \* ---- routing (App.jsx) ----
    enteredPath,        \* the path the user entered last
    routerLocation,     \* the router's location: [path, search]
    rendered,           \* the element of the matched route
    redirectCount       \* Navigate redirects since the path was entered

searchVars == <<catalogProducts, searchParamsQ, limit, productResults, suggestions>>

listingVars ==
    <<active, collectionProducts, collectionLoading, selectedSizes, availabilityFilter,
      sortBy, filteredAndSortedProducts, inflight, stale, lastRequested>>

\* the search page's own state (the catalog is shared with the listing)
searchPageVars == <<searchParamsQ, limit, productResults, suggestions>>

drawerVars ==
    <<cartContextItems, externalProducts, isCheckingOut, checkoutError, checkoutRun,
      locationHref>>

productPageVars ==
    <<pageSlug, pageProduct, pageLoading, pageError, selectedSize, focusSize,
      productFetchPending>>

routeVars == <<enteredPath, routerLocation, rendered, redirectCount>>

\* the product page's load(): the recommendations and the calls in flight
loadVars == <<relatedProducts, loads, fetchIssued>>

overlayVars ==
    <<overlayOpen, overlayQuery, overlayResults, overlayLoading, overlaySearches>>

formVars == <<inputText, recentSearches, storedSearches, lastPersisted>>

chartVars ==
    <<chartProduct, sizeChartOpen, sizeChartMemo, sizeOptionsMemo, chartLoading,
      chartFetchPending>>

\* the overlay's copy of the recent searches and the list they are compared with
sharedVars == <<overlayRecents, singleList>>

\* what only the specifications of the page shell change
scrollVars ==
    <<cartDrawerOpen, mobileMenuOpen, overflowStyle, previousOverflow, originalOverflow>>

shellVars == <<sharedVars, scrollVars>>

vars ==
    <<searchVars, listingVars, drawerVars, productPageVars, cartCalls, routeVars, loadVars,
      overlayVars, formVars, chartVars, shellVars>>

\* what the actions of one component leave alone
notSearch ==
    <<listingVars, drawerVars, productPageVars, cartCalls, routeVars, loadVars,
      overlayVars, formVars, chartVars, shellVars>>
notListing ==
    <<searchPageVars, drawerVars, productPageVars, cartCalls, routeVars, loadVars,
      overlayVars, formVars, chartVars, shellVars>>
notCart ==
    <<searchVars, listingVars, routeVars, loadVars, overlayVars, formVars, chartVars, shellVars>>
notRoute ==
    <<searchVars, listingVars, drawerVars, productPageVars, cartCalls, loadVars,
      overlayVars, formVars, chartVars, shellVars>>
notProductLoad ==
    <<searchVars, listingVars, drawerVars, cartCalls, routeVars, overlayVars, formVars,
      chartVars, shellVars>>
notOverlay ==
    <<searchPageVars, listingVars, drawerVars, productPageVars, cartCalls, routeVars, loadVars,
      chartVars, shellVars>>
notChart ==
    <<searchVars, listingVars, drawerVars, productPageVars, cartCalls, routeVars, loadVars,
      overlayVars, formVars, shellVars>>

\* ---------------------------------------------------------------- bounds
MaxCatalog == 2
MaxQueryLen == 3
MaxLimit == 2

\* ---------------------------------------------------------------- values
\* null / undefined of the JavaScript
Null == <<"null">>
\* null / undefined where an object is expected
NullRec == [null |-> TRUE]

\* ------------------------------------------------------------ characters
LowerChars == {"a", "b", "l", "m", "s"}
UpperChars == {"A", "B", "L", "M", "S"}
Digits == {"0", "1", "2", "3", "4", "5", "6", "7", "8", "9"}
CombiningMarks == {"acute"}

\* String.prototype.toLowerCase, one character
toLowerCase(c) ==
    CASE c = "A" -> "a"
      [] c = "B" -> "b"
      [] c = "L" -> "l"
      [] c = "M" -> "m"
      [] c = "S" -> "s"
      [] OTHER -> c

\* String.prototype.normalize('NFD'), one character: the canonical decomposition
nfd(c) == IF c = "a_acute" THEN <<"a", "acute">> ELSE <<c>>

\* the class [a-z0-9]
IsAlnum(c) == c \in LowerChars \cup Digits

\* the class \s that trim() strips
IsSpace(c) == c = " "

\* ------------------------------------------------------- string helpers
\* the concatenation of a sequence of sequences
RECURSIVE Flatten(_)
Flatten(ss) ==
    IF ss = <<>> THEN <<>> ELSE Head(ss) \o Flatten(Tail(ss))

\* String.prototype.includes
includes(hay, needle) ==
    \E i \in 0..(Len(hay) - Len(needle)) :
        SubSeq(hay, i + 1, i + Len(needle)) = needle

\* String.prototype.startsWith
startsWith(hay, needle) ==
    /\ Len(needle) <= Len(hay)
    /\ SubSeq(hay, 1, Len(needle)) = needle

\* String.prototype.trim
RECURSIVE trimStart(_)
trimStart(s) ==
    IF s # <<>> /\ IsSpace(Head(s)) THEN trimStart(Tail(s)) ELSE s

RECURSIVE trimEnd(_)
trimEnd(s) ==
    IF s # <<>> /\ IsSpace(s[Len(s)]) THEN trimEnd(SubSeq(s, 1, Len(s) - 1)) ELSE s

trim(s) == trimEnd(trimStart(s))

\* String.prototype.split(' '): the pieces between single spaces, empty ones kept
RECURSIVE splitSpace(_, _)
splitSpace(s, cur) ==
    IF s = <<>> THEN <<cur>>
    ELSE IF Head(s) = " " THEN <<cur>> \o splitSpace(Tail(s), <<>>)
         ELSE splitSpace(Tail(s), Append(cur, Head(s)))

\* Array.prototype.join(' ')
RECURSIVE joinSpace(_)
joinSpace(parts) ==
    IF parts = <<>> THEN <<>>
    ELSE IF Len(parts) = 1 THEN parts[1]
         ELSE parts[1] \o <<" ">> \o joinSpace(Tail(parts))

\* .replace(/[^a-z0-9]+/g, ' '): every maximal run of other characters becomes one space
RECURSIVE replaceNonAlnumRuns(_, _)
replaceNonAlnumRuns(s, inRun) ==
    IF s = <<>> THEN <<>>
    ELSE IF IsAlnum(Head(s)) THEN <<Head(s)>> \o replaceNonAlnumRuns(Tail(s), FALSE)
         ELSE IF inRun THEN replaceNonAlnumRuns(Tail(s), TRUE)
              ELSE <<" ">> \o replaceNonAlnumRuns(Tail(s), TRUE)

\* ------------------------------------------------- SearchPage.jsx, pure
normalizeSearchText(value) ==
    LET str == IF value = Null THEN <<>> ELSE value
        lower == [i \in 1..Len(str) |-> toLowerCase(str[i])]
        decomposed == Flatten([i \in 1..Len(lower) |-> nfd(lower[i])])
        stripped == SelectSeq(decomposed, LAMBDA c : c \notin CombiningMarks)
        spaced == replaceNonAlnumRuns(stripped, FALSE)
    IN  trim(spaced)

\* the local push of buildSearchableText: null, undefined and '' are skipped
push(value) == IF value = Null \/ value = <<>> THEN <<>> ELSE <<value>>

\* values.forEach(push)
pushAll(values) == Flatten([i \in 1..Len(values) |-> push(values[i])])

pushOption(option) == push(option.name) \o pushAll(option.values)

pushVariant(variant) ==
    push(variant.title) \o push(variant.sku) \o pushAll(variant.selectedOptions)

pushCollection(collection) == push(collection.title) \o push(collection.handle)

searchableParts(product) ==
    push(product.title) \o push(product.handle) \o push(product.vendor)
        \o push(product.productType) \o push(product.description)
        \o pushAll(product.tags)
        \o Flatten([i \in 1..Len(product.options) |-> pushOption(product.options[i])])
        \o Flatten([i \in 1..Len(product.variants) |-> pushVariant(product.variants[i])])
        \o Flatten([i \in 1..Len(product.collections) |->
                        pushCollection(product.collections[i])])

buildSearchableText(product) == normalizeSearchText(joinSpace(searchableParts(product)))

\* normalizeSearchText(q).split(' ').filter(Boolean)
queryTokens(q) == SelectSeq(splitSpace(normalizeSearchText(q), <<>>), LAMBDA t : t # <<>>)

\* lib/shopify toProductCard: the card of a product, null for no product
toProductCard(product) ==
    IF product = NullRec THEN NullRec
    ELSE [href |-> product.handle, title |-> product.title]

\* the match with tokens.some in place of tokens.every
someTokenIncluded(tokens, haystack) ==
    \E k \in 1..Len(tokens) : includes(haystack, tokens[k])

\* tokens.every((token) => haystack.includes(token))
everyTokenIncluded(tokens, haystack) ==
    \A k \in 1..Len(tokens) : includes(haystack, tokens[k])

\* SearchPage.productResults (useMemo over trimmedQuery and searchIndex)
computeProductResults(products, q) ==
    LET initialQuery == IF q = Null THEN <<>> ELSE q
        trimmedQuery == trim(initialQuery)
        tokens == queryTokens(trimmedQuery)
        searchIndex == [i \in 1..Len(products) |->
                            [product |-> products[i],
                             haystack |-> buildSearchableText(products[i])]]
        matched == SelectSeq(searchIndex,
                             LAMBDA e : everyTokenIncluded(tokens, e.haystack))
        cards == [i \in 1..Len(matched) |-> toProductCard(matched[i].product)]
    IN  IF trimmedQuery = <<>> THEN <<>>
        ELSE IF tokens = <<>> THEN <<>>
        ELSE SelectSeq(cards, LAMBDA c : c # NullRec)

\* ---------------------------------------------------- buildSuggestions
\* candidates: one per product with a truthy title (the catalog context always
\* hands over an array, so products ?? [] is products)
suggestionCandidate(product) ==
    IF product = NullRec \/ product.title = Null \/ product.title = <<>> THEN <<>>
    ELSE <<[label |-> product.title, normalized |-> normalizeSearchText(product.title)]>>

\* exact * 100 + starts * 50 + contains * 20
suggestionScore(normalized, queryNormalized) ==
    (IF queryNormalized # <<>> /\ normalized = queryNormalized THEN 100 ELSE 0)
    + (IF queryNormalized # <<>> /\ startsWith(normalized, queryNormalized) THEN 50 ELSE 0)
    + (IF queryNormalized # <<>> /\ includes(normalized, queryNormalized) THEN 20 ELSE 0)

\* the comparator without its tie-break on the label length
compareScoreOnly(a, b) == b.score - a.score

\* the comparator of .sort(): negative when a goes first
suggestionCompare(a, b) ==
    IF b.score # a.score THEN b.score - a.score
    ELSE Len(a.label) - Len(b.label)

\* Array.prototype.sort with suggestionCompare, which is stable: x is inserted
\* after every element the comparator does not put behind it
RECURSIVE insertSuggestion(_, _)
insertSuggestion(sorted, x) ==
    IF sorted = <<>> THEN <<x>>
    ELSE IF suggestionCompare(Head(sorted), x) <= 0
         THEN <<Head(sorted)>> \o insertSuggestion(Tail(sorted), x)
         ELSE <<x>> \o sorted

RECURSIVE sortSuggestions(_, _)
sortSuggestions(items, acc) ==
    IF items = <<>> THEN acc
    ELSE sortSuggestions(Tail(items), insertSuggestion(acc, Head(items)))

\* the for..of loop that fills out: skip empty and seen, push, then test the limit
RECURSIVE takeDistinct(_, _, _, _)
takeDistinct(items, seen, out, lim) ==
    IF items = <<>> THEN out
    ELSE LET item == Head(items) IN
         IF item.normalized = <<>> \/ item.normalized \in seen
         THEN takeDistinct(Tail(items), seen, out, lim)
         ELSE IF Len(out) + 1 >= lim THEN Append(out, item.label)
              ELSE takeDistinct(Tail(items), seen \cup {item.normalized},
                                Append(out, item.label), lim)

buildSuggestions(products, query, lim) ==
    LET candidates == Flatten([i \in 1..Len(products) |-> suggestionCandidate(products[i])])
        queryNormalized == normalizeSearchText(query)
        tokens == IF queryNormalized # <<>>
                  THEN SelectSeq(splitSpace(queryNormalized, <<>>), LAMBDA t : t # <<>>)
                  ELSE <<>>
        filtered == SelectSeq(candidates,
                        LAMBDA item : IF Len(tokens) > 0
                                      THEN everyTokenIncluded(tokens, item.normalized)
                                      ELSE TRUE)
        withScore == [i \in 1..Len(filtered) |->
                        [label |-> filtered[i].label,
                         normalized |-> filtered[i].normalized,
                         score |-> suggestionScore(filtered[i].normalized, queryNormalized)]]
        scored == sortSuggestions(withScore, <<>>)
    IN  IF queryNormalized = <<>>
        THEN takeDistinct(candidates, {}, <<>>, lim)
        ELSE takeDistinct(scored, {}, <<>>, lim)

\* SearchPage.suggestions: buildSuggestions(catalogProducts, trimmedQuery, 6)
computeSuggestions(products, q, lim) ==
    buildSuggestions(products, trim(IF q = Null THEN <<>> ELSE q), lim)

\* ------------------------------------------------------ search inputs
\* the products the catalog is drawn from: every searchable field occurs, with
\* upper case, an accent, punctuation, a missing title and an empty-normalising title
SearchProduct(title, handle, vendor, productType, description, tags, options, variants, collections) ==
    [title |-> title, handle |-> handle, vendor |-> vendor, productType |-> productType,
     description |-> description, tags |-> tags, options |-> options,
     variants |-> variants, collections |-> collections]

SearchPool ==
    { SearchProduct(<<"a", " ", "b">>, <<"1">>, Null, Null, Null,
                    <<>>, <<>>, <<>>, <<>>),
      SearchProduct(<<"A", "-", "b">>, <<"2">>, <<"b", "b">>, Null, <<>>,
                    <<>>, <<>>, <<>>, <<>>),
      SearchProduct(<<"a", " ", "b", " ", "a">>, <<"3">>, Null, <<"a", "a">>, Null,
                    <<>>, <<>>, <<>>, <<[title |-> <<"b", "a", "b">>, handle |-> Null]>>),
      SearchProduct(<<"b", " ", "a", " ", "b">>, <<"4">>, Null, Null, <<"a", "a">>,
                    <<<<"b", "b">>>>, <<>>, <<>>, <<>>),
      SearchProduct(<<"b", "-", "a_acute">>, <<"5">>, Null, Null, Null, <<>>,
                    <<[name |-> <<"a", "a">>, values |-> <<<<"a", "b">>, Null>>]>>,
                    <<>>, <<>>),
      SearchProduct(<<"-">>, <<"6">>, Null, Null, Null, <<>>, <<>>,
                    <<[title |-> <<"a", "b">>, sku |-> <<"b", "b">>,
                       selectedOptions |-> <<<<"a", "a">>>>]>>,
                    <<[title |-> Null, handle |-> <<"b", "a">>]>>),
      SearchProduct(Null, <<"a", "-", "a">>, Null, Null, Null, <<>>, <<>>, <<>>, <<>>) }

RECURSIVE SeqsUpTo(_, _)
SeqsUpTo(S, n) ==
    IF n = 0 THEN {<<>>}
    ELSE LET shorter == SeqsUpTo(S, n - 1)
         IN  shorter \cup {Append(s, x) : s \in {t \in shorter : Len(t) = n - 1}, x \in S}

IsInjective(s) == \A i, j \in 1..Len(s) : s[i] = s[j] => i = j

\* catalogs: up to MaxCatalog different products, in any order
Catalogs == {c \in SeqsUpTo(SearchPool, MaxCatalog) : IsInjective(c)}

QueryChars == {"a", "b", " ", "-"}

\* the q parameter: absent, or any text of up to MaxQueryLen characters
Queries == {Null} \cup SeqsUpTo(QueryChars, MaxQueryLen)

\* the limit both callers pass to buildSuggestions
SuggestionLimit == 6

\* ---- values of the listing page
NoCategory == "none"

\* 'all' and two of the collectionsMeta handles
Categories == {"all", "t-shirts", "shoes"}

NothingStored == [c \in Categories |-> [stored |-> FALSE, list |-> <<>>]]

\* the listing page is not mounted
ListingParked ==
    /\ active = "all"
    /\ collectionProducts = NothingStored
    /\ collectionLoading = FALSE
    /\ selectedSizes = <<>>
    /\ availabilityFilter = "all"
    /\ sortBy = "featured"
    /\ filteredAndSortedProducts = <<>>
    /\ inflight = NoCategory
    /\ stale = {}
    /\ lastRequested = NoCategory

\* ---- values of the cart drawer, the product page and the router
NoSlug == "none"

\* cartCreate has not been called
NoReply == [kind |-> "none", checkoutUrl |-> Null, message |-> Null]

\* handleCheckout is not running and has not run
NotStarted ==
    [pc |-> "idle", cartItems |-> <<>>, fetchErrors |-> {}, missingVariants |-> <<>>,
     lines |-> <<>>, reply |-> NoReply]

\* the drawer has fetched nothing and no checkout has been attempted
DrawerIdle ==
    /\ externalProducts = {}
    /\ isCheckingOut = FALSE
    /\ checkoutError = Null
    /\ checkoutRun = NotStarted
    /\ locationHref = Null
    /\ cartCalls = <<>>

\* the product page is not mounted
PageParked ==
    /\ pageSlug = NoSlug
    /\ pageProduct = NullRec
    /\ pageLoading = FALSE
    /\ pageError = FALSE
    /\ selectedSize = Null
    /\ focusSize = Null
    /\ productFetchPending = FALSE
    /\ relatedProducts = <<>>
    /\ loads = {}
    /\ fetchIssued = NoSlug

\* the drawer holds an empty cart and the product page is not mounted
CartParked ==
    /\ cartContextItems = <<>>
    /\ DrawerIdle
    /\ PageParked

\* the router shows the home page
RouteParked ==
    /\ enteredPath = <<>>
    /\ routerLocation = [path |-> <<>>, search |-> ""]
    /\ rendered = [kind |-> "page", page |-> "HomePage", initialCategory |-> "all",
                   slug |-> NoSlug, toPath |-> <<>>, toSearch |-> ""]
    /\ redirectCount = 0

\* the search overlay is closed, as it is before its first opening
OverlayParked ==
    /\ overlayOpen = FALSE
    /\ overlayQuery = <<>>
    /\ overlayResults = <<>>
    /\ overlayLoading = FALSE
    /\ overlaySearches = {}

\* what the size chart memo returns when there is no metafield
NoRows == [isNull |-> TRUE, list |-> <<>>]

NoSizeChart ==
    [rows |-> NoRows, html |-> Null, imageUrl |-> Null, fileUrl |-> Null, columns |-> <<>>]

\* no product is shown, so there are no sizes and no size chart
ChartParked ==
    /\ chartProduct = NullRec
    /\ sizeChartOpen = FALSE
    /\ sizeChartMemo = NoSizeChart
    /\ sizeOptionsMemo = <<>>
    /\ chartLoading = FALSE
    /\ chartFetchPending = FALSE

\* the overlay was never opened and no recent search was ever touched
SharedParked ==
    /\ overlayRecents = <<>>
    /\ singleList = <<>>

LockingComponents == {"SearchOverlay", "CartDrawer", "Navbar"}

NoOverflow == [body |-> "", html |-> ""]

\* nothing that locks scrolling is open and the styles are untouched
ScrollParked ==
    /\ cartDrawerOpen = FALSE
    /\ mobileMenuOpen = FALSE
    /\ overflowStyle = NoOverflow
    /\ previousOverflow = [c \in LockingComponents |-> NoOverflow]
    /\ originalOverflow = NoOverflow

ShellParked == SharedParked /\ ScrollParked

\* nothing typed, nothing remembered, nothing in storage
NoStorage == [kind |-> "absent", list |-> <<>>]

FormParked ==
    /\ inputText = <<>>
    /\ recentSearches = <<>>
    /\ storedSearches = NoStorage
    /\ lastPersisted = Null

\* ------------------------------------------------------- search actions
\* mount of the search page while the catalog is still loading
InitSearch ==
    /\ catalogProducts = <<>>
    /\ searchParamsQ \in Queries
    /\ limit \in 0..MaxLimit
    /\ productResults = computeProductResults(catalogProducts, searchParamsQ)
    /\ suggestions = computeSuggestions(catalogProducts, searchParamsQ, limit)
    /\ ListingParked
    /\ CartParked
    /\ RouteParked
    /\ OverlayParked
    /\ ChartParked
    /\ ShellParked
    /\ FormParked

\* the catalog context delivers its products; both memos are recomputed
CatalogLoaded ==
    /\ catalogProducts = <<>>
    /\ \E c \in Catalogs \ {<<>>} :
        /\ catalogProducts' = c
        /\ productResults' = computeProductResults(c, searchParamsQ)
        /\ suggestions' = computeSuggestions(c, searchParamsQ, limit)
    /\ UNCHANGED <<searchParamsQ, limit>>
    /\ UNCHANGED notSearch

NextSearch == CatalogLoaded

\* ---------------------------------------------------- search properties
\* the text of the URL query
UrlQuery == IF searchParamsQ = Null THEN <<>> ELSE searchParamsQ

\* the tokens of a normalised text: its maximal runs without a space
TokensOf(n) ==
    {SubSeq(n, i, j) : <<i, j>> \in
        {<<i, j>> \in (1..Len(n)) \X (1..Len(n)) :
            /\ i <= j
            /\ \A k \in i..j : n[k] # " "
            /\ (i = 1 \/ n[i - 1] = " ")
            /\ (j = Len(n) \/ n[j + 1] = " ")}}

Range(s) == {s[i] : i \in 1..Len(s)}

\* the searchable fields of a product: title, handle, vendor, type, description,
\* tags, options, variants, collections
FieldsOf(p) ==
    ({p.title, p.handle, p.vendor, p.productType, p.description}
        \cup Range(p.tags)
        \cup UNION {{o.name} \cup Range(o.values) : o \in Range(p.options)}
        \cup UNION {{v.title, v.sku} \cup Range(v.selectedOptions) : v \in Range(p.variants)}
        \cup UNION {{c.title, c.handle} : c \in Range(p.collections)})
    \ {Null}

\* a token has no space and the fields are joined by spaces, so a token occurs in
\* the searchable text exactly when it occurs in the normalised text of a field
TokenInProduct(t, p) ==
    \E f \in FieldsOf(p) :
        LET n == normalizeSearchText(f)
        IN  \E i \in 1..Len(n) : i + Len(t) - 1 <= Len(n) /\ SubSeq(n, i, i + Len(t) - 1) = t

QueryTokenSet == TokensOf(normalizeSearchText(UrlQuery))

MatchingIndexes ==
    LET toks == QueryTokenSet
    IN  {i \in 1..Len(catalogProducts) : \A t \in toks : TokenInProduct(t, catalogProducts[i])}

\* C1: the search page lists a product if and only if every normalised token of
\* the URL query occurs in the product's normalised searchable text; matches keep
\* catalog order; a query with no token (blank or only punctuation) lists nothing.
C1_SearchMatching ==
    LET idx == MatchingIndexes
    IN  IF QueryTokenSet = {}
        THEN productResults = <<>>
        ELSE /\ Len(productResults) = Cardinality(idx)
             /\ \A i \in idx :
                    productResults[Cardinality({j \in idx : j <= i})]
                        = [href |-> catalogProducts[i].handle,
                           title |-> catalogProducts[i].title]

\* a two-token query against a catalog of two products, exactly one of them listed
C1_Witness ==
    /\ Cardinality(QueryTokenSet) = 2
    /\ Len(catalogProducts) = 2
    /\ Len(productResults) = 1
    /\ MatchingIndexes = {2}

\* the score the ranking gives a normalised title n for a normalised query qn
RankScore(n, qn) ==
    LET isPrefix == Len(qn) <= Len(n) /\ \A k \in 1..Len(qn) : n[k] = qn[k]
        isInfix == \E off \in 0..(Len(n) - Len(qn)) : \A k \in 1..Len(qn) : n[off + k] = qn[k]
    IN  (IF n = qn THEN 100 ELSE 0) + (IF isPrefix THEN 50 ELSE 0) + (IF isInfix THEN 20 ELSE 0)

\* label x may stand before label y in the ranking for the normalised query qn
RanksBefore(x, y, qn) ==
    LET sx == RankScore(normalizeSearchText(x), qn)
        sy == RankScore(normalizeSearchText(y), qn)
    IN  sx > sy \/ (sx = sy /\ Len(x) <= Len(y))

\* the catalog titles that contain every token of the query
MatchingTitles ==
    LET toks == QueryTokenSet
    IN  {t \in {p.title : p \in Range(catalogProducts)} \ {Null, <<>>} :
            LET n == normalizeSearchText(t) IN \A tok \in toks : includes(n, tok)}

NormalizedSuggestions == {normalizeSearchText(suggestions[i]) : i \in 1..Len(suggestions)}

RECURSIVE DistinctTitles(_, _)
DistinctTitles(products, seen) ==
    IF products = <<>> THEN <<>>
    ELSE LET t == Head(products).title
             n == normalizeSearchText(t)
         IN  IF t = Null \/ n = <<>> \/ n \in seen
             THEN DistinctTitles(Tail(products), seen)
             ELSE <<t>> \o DistinctTitles(Tail(products), seen \cup {n})

Min(a, b) == IF a <= b THEN a ELSE b

SortKeys == {"featured", "price-asc", "price-desc", "title-asc", "title-desc"}

\* a value of the select that is no key of compareFns
UnknownSortKey == "newest"

AvailabilityValues == {"all", "in-stock", "out-of-stock"}

\* ---- String.prototype.localeCompare on the model's characters: base letters
\* first, then accents, then case (lower before upper)
baseRank(c) ==
    CASE c \in {" ", "-"} -> 0
      [] c \in Digits -> 1
      [] c \in {"a", "A", "a_acute"} -> 2
      [] c \in {"b", "B"} -> 3
      [] c \in {"l", "L"} -> 4
      [] c \in {"m", "M"} -> 5
      [] c \in {"s", "S"} -> 6
      [] OTHER -> 7

accentRank(c) == IF c = "a_acute" THEN 1 ELSE 0

caseRank(c) == IF c \in UpperChars THEN 1 ELSE 0

\* lexicographic comparison of two sequences of numbers: -1, 0 or 1
RECURSIVE compareKeys(_, _)
compareKeys(x, y) ==
    IF x = <<>> /\ y = <<>> THEN 0
    ELSE IF x = <<>> THEN -1
    ELSE IF y = <<>> THEN 1
    ELSE IF Head(x) < Head(y) THEN -1
    ELSE IF Head(x) > Head(y) THEN 1
    ELSE compareKeys(Tail(x), Tail(y))

localeCompare(x, y) ==
    LET p == compareKeys([i \in 1..Len(x) |-> baseRank(x[i])],
                         [i \in 1..Len(y) |-> baseRank(y[i])])
        a == compareKeys([i \in 1..Len(x) |-> accentRank(x[i])],
                         [i \in 1..Len(y) |-> accentRank(y[i])])
        c == compareKeys([i \in 1..Len(x) |-> caseRank(x[i])],
                         [i \in 1..Len(y) |-> caseRank(y[i])])
    IN  IF p # 0 THEN p ELSE IF a # 0 THEN a ELSE c

\* ---- lib/shopify helpers the page imports
\* extractOptionValues(product, 'size'): the values of the product's size option
extractOptionValues(product) == product.optionValues.size

\* normaliseTokenValue: lower case, trimmed
normaliseTokenValue(value) ==
    trim([i \in 1..Len(value) |-> toLowerCase(value[i])])

\* ---- filteredAndSortedProducts
matchesSize(product, sizes) ==
    LET selectedTokens == [i \in 1..Len(sizes) |-> normaliseTokenValue(sizes[i])]
        values == extractOptionValues(product)
        productSizes == [i \in 1..Len(values) |-> normaliseTokenValue(values[i])]
    IN  IF Len(selectedTokens) = 0 THEN TRUE
        ELSE IF Len(productSizes) = 0 THEN FALSE
        ELSE \E i \in 1..Len(selectedTokens) :
                \E j \in 1..Len(productSizes) : productSizes[j] = selectedTokens[i]

\* the out-of-stock test with some in place of every
someVariantUnavailable(product) ==
    \E i \in 1..Len(product.variants) : ~product.variants[i].availableForSale

\* product.variants?.every((variant) => !variant.availableForSale)
everyVariantUnavailable(product) ==
    \A i \in 1..Len(product.variants) : ~product.variants[i].availableForSale

\* product.variants?.some((variant) => variant.availableForSale)
productInStock(product) ==
    \E i \in 1..Len(product.variants) : product.variants[i].availableForSale

matchesAvailability(product, filter) ==
    IF filter = "all" THEN TRUE
    ELSE IF filter = "in-stock" THEN productInStock(product)
    ELSE IF filter = "out-of-stock" THEN everyVariantUnavailable(product)
    ELSE TRUE

\* a.price ?? 0
priceOrZero(product) == IF product.price = NullRec THEN 0 ELSE product.price.amount

\* compareFns[sortBy] ?? compareFns.featured, applied to a and b
compareProducts(key, a, b) ==
    CASE key = "price-asc" -> priceOrZero(a) - priceOrZero(b)
      [] key = "price-desc" -> priceOrZero(b) - priceOrZero(a)
      [] key = "title-asc" -> localeCompare(a.title, b.title)
      [] key = "title-desc" -> localeCompare(b.title, a.title)
      [] OTHER -> 0

\* Array.prototype.sort(comparator), which is stable
RECURSIVE insertProduct(_, _, _)
insertProduct(key, sorted, x) ==
    IF sorted = <<>> THEN <<x>>
    ELSE IF compareProducts(key, Head(sorted), x) <= 0
         THEN <<Head(sorted)>> \o insertProduct(key, Tail(sorted), x)
         ELSE <<x>> \o sorted

RECURSIVE sortProducts(_, _, _)
sortProducts(key, items, acc) ==
    IF items = <<>> THEN acc
    ELSE sortProducts(key, Tail(items), insertProduct(key, acc, Head(items)))

\* the pipeline with the sort run on the category's own array before the filter
sortSourceInPlace(source, sizes, filter, key) ==
    LET sorted == sortProducts(key, source, <<>>)
    IN  [result |-> SelectSeq(sorted, LAMBDA product :
                        matchesSize(product, sizes) /\ matchesAvailability(product, filter)),
         source |-> sorted]

\* filteredProducts.filter(...).slice().sort(comparator): filter and slice give
\* fresh arrays, so the sort in place reorders the copy; `source` is the
\* category's array as the pipeline leaves it
filterAndSort(source, sizes, filter, key) ==
    LET kept == SelectSeq(source, LAMBDA product :
                    matchesSize(product, sizes) /\ matchesAvailability(product, filter))
    IN  [result |-> sortProducts(key, kept, <<>>), source |-> source]

\* useMemo filteredProducts
filteredProductsOf(category, catalog, stored) ==
    IF category = "all" THEN catalog
    ELSE IF stored[category].stored THEN stored[category].list ELSE <<>>

\* insertion of a size into the sorted size list (values.sort(localeCompare))
RECURSIVE insertSize(_, _)
insertSize(sorted, x) ==
    IF sorted = <<>> THEN <<x>>
    ELSE IF localeCompare(Head(sorted), x) <= 0
         THEN <<Head(sorted)>> \o insertSize(Tail(sorted), x)
         ELSE <<x>> \o sorted

RECURSIVE collectSizes(_, _)
collectSizes(values, acc) ==
    IF values = <<>> THEN acc
    ELSE IF Head(values) = Null \/ Head(values) = <<>>
              \/ \E i \in 1..Len(acc) : acc[i] = Head(values)
         THEN collectSizes(Tail(values), acc)
         ELSE collectSizes(Tail(values), Append(acc, Head(values)))

RECURSIVE sortSizes(_, _)
sortSizes(values, acc) ==
    IF values = <<>> THEN acc ELSE sortSizes(Tail(values), insertSize(acc, Head(values)))

\* useMemo sizeOptions: the distinct truthy sizes of the category, sorted
sizeOptionsOf(products) ==
    sortSizes(collectSizes(Flatten([i \in 1..Len(products) |->
                                        extractOptionValues(products[i])]), <<>>), <<>>)

\* ---- listing inputs
ListingProduct(handle, title, price, variants, sizes) ==
    [handle |-> handle, title |-> title, price |-> price, variants |-> variants,
     optionValues |-> [size |-> sizes]]

Shirt1 ==
    ListingProduct(<<"1">>, <<"b">>, [amount |-> 20],
                   <<[availableForSale |-> TRUE]>>, <<<<"S">>, <<"M">>>>)

Shirt2 ==
    ListingProduct(<<"2">>, <<"a">>, NullRec,
                   <<[availableForSale |-> FALSE], [availableForSale |-> FALSE]>>,
                   <<<<"s">>>>)

Shoe3 == ListingProduct(<<"3">>, <<"A">>, [amount |-> 20], <<>>, <<<<"L">>>>)

Shirt4 ==
    ListingProduct(<<"4">>, <<"a">>, [amount |-> 10],
                   <<[availableForSale |-> FALSE], [availableForSale |-> TRUE]>>,
                   <<<<"M">>>>)

\* what the catalog context holds, and what the platform lists for a collection
ListingCatalog == <<Shirt1, Shirt2, Shoe3, Shirt4>>

ServerList(category) ==
    IF category = "t-shirts" THEN <<Shirt4, Shirt1, Shirt2>> ELSE <<Shoe3>>

\* ---- the collection effect (deps: active, hasCollectionProducts,
\* ensureCollectionProducts)
\* the early return without its hasCollectionProducts test
returnsEarlyOnAllOnly(category, stored) == category = "all"

\* if (active === 'all' || hasCollectionProducts) return;
effectReturnsEarly(category, stored) ==
    category = "all" \/ stored[category].stored

\* one run of the effect for `category`: the cleanup of the run before it cancels
\* the call `live` (if any), then the body calls ensureCollectionProducts or not
RunCollectionEffect(category, stored, live, loading) ==
    /\ stale' = IF live = NoCategory THEN stale ELSE stale \cup {live}
    /\ IF effectReturnsEarly(category, stored)
       THEN /\ inflight' = NoCategory
            /\ lastRequested' = NoCategory
            /\ collectionLoading' = loading
       ELSE /\ inflight' = category
            /\ lastRequested' = category
            /\ collectionLoading' = TRUE

\* the size effect: an empty sizeOptions clears the selection
sizesAfterEffect(products, sizes) ==
    IF Len(sizeOptionsOf(products)) = 0 THEN <<>> ELSE sizes

\* the render that follows a state change: the size effect, then the memo; the
\* arrays of the catalog and of the stored collection are left as the pipeline
\* leaves them
RenderListing(category, catalog, stored, sizes, filter, key) ==
    LET source == filteredProductsOf(category, catalog, stored)
        sizes2 == sizesAfterEffect(source, sizes)
        r == filterAndSort(source, sizes2, filter, key)
    IN  /\ selectedSizes' = sizes2
        /\ filteredAndSortedProducts' = r.result
        /\ catalogProducts' = IF category = "all" THEN r.source ELSE catalog
        /\ collectionProducts' =
                IF category # "all" /\ stored[category].stored
                THEN [stored EXCEPT ![category].list = r.source]
                ELSE stored

\* the search page is not mounted
SearchParked ==
    /\ searchParamsQ = Null
    /\ limit = SuggestionLimit
    /\ productResults = <<>>
    /\ suggestions = <<>>

\* mount of the listing page on /products or /products?category=...
InitListing ==
    /\ catalogProducts = ListingCatalog
    /\ active \in Categories
    /\ collectionProducts = NothingStored
    /\ selectedSizes = <<>>
    /\ availabilityFilter = "all"
    /\ sortBy = "featured"
    /\ filteredAndSortedProducts =
            filterAndSort(filteredProductsOf(active, catalogProducts, collectionProducts),
                          <<>>, "all", "featured").result
    /\ stale = {}
    /\ inflight = (IF effectReturnsEarly(active, NothingStored) THEN NoCategory ELSE active)
    /\ lastRequested = inflight
    /\ collectionLoading = (inflight # NoCategory)
    /\ SearchParked
    /\ CartParked
    /\ RouteParked
    /\ OverlayParked
    /\ ChartParked
    /\ ShellParked
    /\ FormParked

\* updateCategory(value): the category of the URL changes
SelectCategory(value) ==
    /\ value \in Categories
    /\ value # active
    /\ active' = value
    /\ RunCollectionEffect(value, collectionProducts, inflight, collectionLoading)
    /\ RenderListing(value, catalogProducts, collectionProducts, selectedSizes,
                     availabilityFilter, sortBy)
    /\ UNCHANGED <<availabilityFilter, sortBy>>
    /\ UNCHANGED notListing

\* ensureCollectionProducts resolves with a list (empty, or the collection's
\* products) for the call that is not cancelled: the list is stored, loading ends,
\* the effect runs again
CollectionResolved(empty) ==
    /\ inflight # NoCategory
    /\ LET list == IF empty THEN <<>> ELSE ServerList(inflight)
           stored2 == [collectionProducts EXCEPT ![inflight] = [stored |-> TRUE, list |-> list]]
       IN  /\ RunCollectionEffect(active, stored2, NoCategory, FALSE)
           /\ RenderListing(active, catalogProducts, stored2, selectedSizes,
                            availabilityFilter, sortBy)
    /\ UNCHANGED <<active, availabilityFilter, sortBy>>
    /\ UNCHANGED notListing

\* it resolves with nothing (!productsForCollection) or rejects: nothing is
\* stored, loading ends
CollectionFailed ==
    /\ inflight # NoCategory
    /\ inflight' = NoCategory
    /\ lastRequested' = NoCategory
    /\ collectionLoading' = FALSE
    /\ UNCHANGED <<catalogProducts, active, collectionProducts, selectedSizes,
                   availabilityFilter, sortBy, filteredAndSortedProducts, stale>>
    /\ UNCHANGED notListing

\* a cancelled call settles: then, catch and finally all do nothing
StaleCallSettled(category) ==
    /\ category \in stale
    /\ stale' = stale \ {category}
    /\ lastRequested' = NoCategory
    /\ UNCHANGED <<catalogProducts, active, collectionProducts, collectionLoading,
                   selectedSizes, availabilityFilter, sortBy, filteredAndSortedProducts,
                   inflight>>
    /\ UNCHANGED notListing

\* the catalog context hands over a new ensureCollectionProducts: the effect
\* runs again for the same category
EnsureFunctionChanged ==
    /\ RunCollectionEffect(active, collectionProducts, inflight, collectionLoading)
    /\ UNCHANGED <<catalogProducts, active, collectionProducts, selectedSizes,
                   availabilityFilter, sortBy, filteredAndSortedProducts>>
    /\ UNCHANGED notListing

\* toggleSize(size), from a checkbox of the size popover
toggleSize(size) ==
    /\ \E i \in 1..Len(sizeOptionsOf(filteredProductsOf(active, catalogProducts,
                                                        collectionProducts))) :
            sizeOptionsOf(filteredProductsOf(active, catalogProducts,
                                             collectionProducts))[i] = size
    /\ LET next == IF \E i \in 1..Len(selectedSizes) : selectedSizes[i] = size
                   THEN SelectSeq(selectedSizes, LAMBDA value : value # size)
                   ELSE Append(selectedSizes, size)
       IN  RenderListing(active, catalogProducts, collectionProducts, next,
                         availabilityFilter, sortBy)
    /\ lastRequested' = NoCategory
    /\ UNCHANGED <<active, collectionLoading, availabilityFilter, sortBy, inflight, stale>>
    /\ UNCHANGED notListing

\* the Reset button of the size popover: setSelectedSizes([])
resetSizes ==
    /\ selectedSizes # <<>>
    /\ RenderListing(active, catalogProducts, collectionProducts, <<>>,
                     availabilityFilter, sortBy)
    /\ lastRequested' = NoCategory
    /\ UNCHANGED <<active, collectionLoading, availabilityFilter, sortBy, inflight, stale>>
    /\ UNCHANGED notListing

\* a checkbox of the availability popover, or its Reset button
setAvailabilityFilter(option) ==
    /\ option \in AvailabilityValues
    /\ LET next == IF option = "all" \/ availabilityFilter = option THEN "all" ELSE option
       IN  /\ next # availabilityFilter
           /\ availabilityFilter' = next
           /\ RenderListing(active, catalogProducts, collectionProducts, selectedSizes,
                            next, sortBy)
    /\ lastRequested' = NoCategory
    /\ UNCHANGED <<active, collectionLoading, sortBy, inflight, stale>>
    /\ UNCHANGED notListing

\* the sort select: setSortBy(event.target.value)
setSortBy(value) ==
    /\ value \in SortKeys \cup {UnknownSortKey}
    /\ value # sortBy
    /\ sortBy' = value
    /\ RenderListing(active, catalogProducts, collectionProducts, selectedSizes,
                     availabilityFilter, value)
    /\ lastRequested' = NoCategory
    /\ UNCHANGED <<active, collectionLoading, availabilityFilter, inflight, stale>>
    /\ UNCHANGED notListing

NextListing ==
    \/ \E value \in Categories : SelectCategory(value)
    \/ \E empty \in BOOLEAN : CollectionResolved(empty)
    \/ CollectionFailed
    \/ \E category \in Categories : StaleCallSettled(category)
    \/ EnsureFunctionChanged
    \/ \E size \in {<<"S">>, <<"s">>, <<"M">>} : toggleSize(size)
    \/ resetSizes
    \/ \E option \in AvailabilityValues : setAvailabilityFilter(option)
    \/ \E value \in SortKeys \cup {UnknownSortKey} : setSortBy(value)

\* ---------------------------------------------------- listing properties
ActiveList == filteredProductsOf(active, catalogProducts, collectionProducts)

\* position of a product in the active category's list (its products are distinct)
PositionIn(list, product) == CHOOSE i \in 1..Len(list) : list[i] = product

PassesSize(product) ==
    \/ selectedSizes = <<>>
    \/ \E s \in Range(product.optionValues.size), t \in Range(selectedSizes) :
            normaliseTokenValue(s) = normaliseTokenValue(t)

PassesAvailability(product) ==
    LET available == {i \in 1..Len(product.variants) : product.variants[i].availableForSale}
    IN  CASE availabilityFilter = "in-stock" -> available # {}
          [] availabilityFilter = "out-of-stock" -> available = {}
          [] OTHER -> TRUE

PriceOf(product) == IF product.price = NullRec THEN 0 ELSE product.price.amount

\* x may stand before y under the selected sort option; products the option does
\* not tell apart keep the category's order
InSortOrder(x, y) ==
    LET inCategoryOrder == PositionIn(ActiveList, x) < PositionIn(ActiveList, y)
    IN  CASE sortBy = "price-asc" ->
                PriceOf(x) < PriceOf(y) \/ (PriceOf(x) = PriceOf(y) /\ inCategoryOrder)
          [] sortBy = "price-desc" ->
                PriceOf(x) > PriceOf(y) \/ (PriceOf(x) = PriceOf(y) /\ inCategoryOrder)
          [] sortBy = "title-asc" ->
                localeCompare(x.title, y.title) < 0
                    \/ (localeCompare(x.title, y.title) = 0 /\ inCategoryOrder)
          [] sortBy = "title-desc" ->
                localeCompare(x.title, y.title) > 0
                    \/ (localeCompare(x.title, y.title) = 0 /\ inCategoryOrder)
          [] OTHER -> inCategoryOrder

\* C4: the displayed list is exactly the products of the active category that pass
\* the size filter and the availability filter, ordered by the selected comparator
\* (a missing price counting as 0); featured and unknown keys keep the category's
\* own order.
C4_FilterSortPipeline ==
    /\ Range(filteredAndSortedProducts)
            = {p \in Range(ActiveList) : PassesSize(p) /\ PassesAvailability(p)}
    /\ \A i, j \in 1..Len(filteredAndSortedProducts) :
            i < j => /\ filteredAndSortedProducts[i] # filteredAndSortedProducts[j]
                     /\ InSortOrder(filteredAndSortedProducts[i], filteredAndSortedProducts[j])

\* both filters are set, the sort is by price, and a product with one available
\* and one unavailable variant is among two that are displayed
C4_Witness ==
    /\ selectedSizes # <<>>
    /\ availabilityFilter = "in-stock"
    /\ sortBy = "price-asc"
    /\ Len(filteredAndSortedProducts) = 2
    /\ Len(ActiveList) > 2
    /\ filteredAndSortedProducts[1] = Shirt4

\* the number of times x occurs in a list
Occurrences(list, x) == Cardinality({i \in 1..Len(list) : list[i] = x})

\* C5: with category, size selection and availability filter fixed, a change of the
\* sort option leaves the displayed products the same up to order, and leaves the
\* catalog's and the stored collections' lists as they were.
C5_SortOnlyReorders ==
    [][(/\ sortBy' # sortBy
        /\ active' = active
        /\ selectedSizes' = selectedSizes
        /\ availabilityFilter' = availabilityFilter)
       => /\ Len(filteredAndSortedProducts') = Len(filteredAndSortedProducts)
          /\ \A x \in Range(filteredAndSortedProducts) :
                Occurrences(filteredAndSortedProducts', x)
                    = Occurrences(filteredAndSortedProducts, x)
          /\ catalogProducts' = catalogProducts
          /\ collectionProducts' = collectionProducts]_vars

\* a sort option is selected under which the displayed order differs from the
\* category's own order
C5_Witness ==
    /\ sortBy = "title-desc"
    /\ Len(filteredAndSortedProducts) >= 3
    /\ filteredAndSortedProducts
            # SelectSeq(ActiveList, LAMBDA p : PassesSize(p) /\ PassesAvailability(p))

\* C9: ensureCollectionProducts is called for a category only while no list is
\* stored for it; a stored list, even an empty one, is kept as it is and its
\* category is never requested again; 'all' never triggers a request.
C9_CollectionCache ==
    [][/\ lastRequested' # "all"
       /\ \A c \in Categories :
            /\ lastRequested' = c => ~collectionProducts[c].stored
            /\ collectionProducts[c].stored =>
                    /\ lastRequested' # c
                    /\ collectionProducts'[c].stored
                    /\ Range(collectionProducts'[c].list) = Range(collectionProducts[c].list)
                    /\ Len(collectionProducts'[c].list) = Len(collectionProducts[c].list)]_vars

\* an empty list is stored for the active category, another category has been
\* stored too, and nothing is in flight or being requested
C9_Witness ==
    /\ active = "shoes"
    /\ collectionProducts["shoes"].stored
    /\ collectionProducts["shoes"].list = <<>>
    /\ collectionProducts["t-shirts"].stored
    /\ inflight = NoCategory
    /\ lastRequested = NoCategory

\* ============================================================ cart drawer
\* ---------------------------------------------------------------- bounds
MaxCartLines == 2
MaxQuantity == 2

\* ---- JavaScript numbers, kept in tenths so that a fractional quantity and
\* Math.floor are represented; NaN and Infinity are values of their own
Num(t) == [kind |-> "number", tenths |-> t]
NaN == [kind |-> "NaN", tenths |-> 0]
Infinity == [kind |-> "Infinity", tenths |-> 0]
\* a line without a quantity property
Undefined == [kind |-> "undefined", tenths |-> 0]

\* item.quantity ?? 1
quantityOrOne(quantity) == IF quantity = Undefined THEN Num(10) ELSE quantity

\* quantity + n for a whole number n (NaN and Infinity absorb it)
plus(quantity, n) ==
    IF quantity.kind = "number" THEN Num(quantity.tenths + 10 * n) ELSE quantity

\* Number.isFinite
isFinite(quantity) == quantity.kind = "number"

\* quantity < 1 (false for NaN and for Infinity)
lessThanOne(quantity) == quantity.kind = "number" /\ quantity.tenths < 10

\* Math.floor of a finite number
floor(quantity) == Num((quantity.tenths \div 10) * 10)

\* the most one line may ask for
LineQuantityCap == 99

\* floor without the cap
floorOnly(quantity) == floor(quantity)

\* Math.min(Math.floor(quantity), 99)
lineQuantity(quantity) ==
    LET floored == floor(quantity)
    IN  IF floored.tenths > LineQuantityCap * 10 THEN Num(LineQuantityCap * 10) ELSE floored

\* ---- products as the drawer and the product page read them
DefaultTitle == <<"Default Title">>

Variant(size, id, title) == [size |-> size, id |-> id, title |-> title]

\* the catalog's copy of the tee: sizes S and M
TeeCached ==
    [handle |-> "tee", source |-> "catalog", id |-> <<"gid-product-tee">>,
     optionValues |-> [size |-> << <<"S">>, <<"M">> >>],
     sizeOptionValues |-> <<>>,
     variants |-> << Variant(<<"S">>, <<"gid-tee-s">>, << <<"S">> >>),
                     Variant(<<"M">>, <<"gid-tee-m">>, << <<"M">> >>) >>,
     sizeChartRows |-> <<>>]

\* the tee as fetchProductByHandle returns it: the shop now sells M only
TeeFull ==
    [handle |-> "tee", source |-> "fetch", id |-> <<"gid-product-tee">>,
     optionValues |-> [size |-> <<>>],
     sizeOptionValues |-> << <<"M">>, DefaultTitle >>,
     variants |-> << Variant(<<"M">>, <<"gid-tee-m">>, << <<"M">> >>) >>,
     sizeChartRows |-> <<>>]

\* a product without sizes that the catalog does not hold
CapFull ==
    [handle |-> "cap", source |-> "fetch", id |-> <<"gid-product-cap">>,
     optionValues |-> [size |-> <<>>],
     sizeOptionValues |-> <<>>,
     variants |-> << Variant(Null, <<"gid-cap">>, <<DefaultTitle>>) >>,
     sizeChartRows |-> <<>>]

Handles == {"tee", "cap"}

DrawerCatalog == <<TeeCached>>

\* what fetchProductByHandle resolves to when it finds the product
FetchedProduct(handle) == IF handle = "tee" THEN TeeFull ELSE CapFull

\* useCatalog().getProduct
getProduct(catalog, handle) ==
    IF \E i \in 1..Len(catalog) : catalog[i].handle = handle
    THEN catalog[CHOOSE i \in 1..Len(catalog) :
                    /\ catalog[i].handle = handle
                    /\ \A j \in 1..(i - 1) : catalog[j].handle # handle]
    ELSE NullRec

\* lib/shopify findVariantForSize: the variant sold in that size
findVariantForSize(product, size) ==
    IF \E i \in 1..Len(product.variants) : product.variants[i].size = size
    THEN product.variants[CHOOSE i \in 1..Len(product.variants) :
                    /\ product.variants[i].size = size
                    /\ \A j \in 1..(i - 1) : product.variants[j].size # size]
    ELSE NullRec

\* findVariantForSize(product, size)?.id ?? null
resolveVariantId(product, size) ==
    LET variant == findVariantForSize(product, size)
    IN  IF variant = NullRec THEN Null ELSE variant.id

\* ---- the cart context: lines keyed by handle plus size
sameLine(item, handle, size) == item.slug = handle /\ item.size = size

addItem(items, handle, size) ==
    IF \E i \in 1..Len(items) : sameLine(items[i], handle, size)
    THEN [i \in 1..Len(items) |->
            IF sameLine(items[i], handle, size)
            THEN [items[i] EXCEPT !.quantity = plus(quantityOrOne(items[i].quantity), 1)]
            ELSE items[i]]
    ELSE Append(items, [slug |-> handle, size |-> size, quantity |-> Num(10)])

removeItem(items, handle, size) ==
    SelectSeq(items, LAMBDA item : ~sameLine(item, handle, size))

updateQuantity(items, handle, size, quantity) ==
    IF quantity.kind = "number" /\ quantity.tenths <= 0
    THEN removeItem(items, handle, size)
    ELSE [i \in 1..Len(items) |->
            IF sameLine(items[i], handle, size)
            THEN [items[i] EXCEPT !.quantity = quantity]
            ELSE items[i]]

\* ---- memos of the drawer
\* Array.from(new Set(items.map((item) => item.slug).filter(Boolean)))
cartHandles(items) == {items[i].slug : i \in 1..Len(items)}

\* getProduct(handle) ?? externalProducts[handle]
drawerProduct(catalog, external, handle) ==
    LET known == getProduct(catalog, handle)
    IN  IF known # NullRec THEN known
        ELSE IF handle \in external THEN FetchedProduct(handle)
        ELSE NullRec

cartItemsOf(items, catalog, external) ==
    [i \in 1..Len(items) |->
        LET product == drawerProduct(catalog, external, items[i].slug)
        IN  [handle |-> items[i].slug,
             product |-> product,
             quantity |-> quantityOrOne(items[i].quantity),
             size |-> items[i].size,
             loading |-> (product = NullRec)]]

readyItemsOf(cartItems) ==
    SelectSeq(cartItems, LAMBDA item : ~item.loading /\ item.product # NullRec)

\* [...readyItems].reverse()
displayItemsOf(cartItems) ==
    LET ready == readyItemsOf(cartItems)
    IN  [i \in 1..Len(ready) |-> ready[Len(ready) + 1 - i]]

\* ---- handleCheckout
\* the handles the handler fetches itself: those no ready line brought a product for
handlesToFetch(cartItems) ==
    {cartItems[i].handle : i \in 1..Len(cartItems)}
        \ {cartItems[i].handle : i \in {j \in 1..Len(cartItems) :
                ~cartItems[j].loading /\ cartItems[j].product # NullRec}}

\* the loop over cartItems: what one line contributes
lineIsMissingProduct(lineItem) == lineItem.loading \/ lineItem.product = NullRec

lineIsMissingVariant(lineItem) ==
    /\ ~lineIsMissingProduct(lineItem)
    /\ resolveVariantId(lineItem.product, lineItem.size) \in {Null, <<>>}

RECURSIVE collectMissingVariants(_)
collectMissingVariants(cartItems) ==
    IF cartItems = <<>> THEN <<>>
    ELSE LET lineItem == Head(cartItems)
             rest == collectMissingVariants(Tail(cartItems))
         IN  IF lineIsMissingProduct(lineItem)
             THEN <<[handle |-> lineItem.handle, size |-> Null, reason |-> "product"]>> \o rest
             ELSE IF lineIsMissingVariant(lineItem)
             THEN <<[handle |-> lineItem.handle, size |-> lineItem.size,
                     reason |-> "variant"]>> \o rest
             ELSE rest

RECURSIVE buildLines(_)
buildLines(cartItems) ==
    IF cartItems = <<>> THEN <<>>
    ELSE LET lineItem == Head(cartItems)
             rest == buildLines(Tail(cartItems))
         IN  IF lineIsMissingProduct(lineItem) \/ lineIsMissingVariant(lineItem) THEN rest
             ELSE IF ~isFinite(lineItem.quantity) \/ lessThanOne(lineItem.quantity) THEN rest
             ELSE <<[merchandiseId |-> resolveVariantId(lineItem.product, lineItem.size),
                     quantity |-> lineQuantity(lineItem.quantity)]>> \o rest

\* the messages the handler shows
FetchErrorsMessage == <<"Some products are not available in Shopify">>
MissingVariantsMessage == <<"Product or variant was not found">>
NoLinesMessage == <<"Unable to prepare checkout for your items">>
NoCheckoutUrlMessage == <<"Checkout link unavailable">>
DefaultFailureMessage == <<"We could not start the checkout">>

\* error.message whatever it is
rawMessage(reply) == IF reply.kind = "Error" THEN reply.message ELSE Null

\* error instanceof Error && error.message ? error.message : the default
thrownMessage(reply) ==
    IF reply.kind = "Error" /\ reply.message # Null /\ reply.message # <<>>
    THEN reply.message
    ELSE DefaultFailureMessage

\* how cartCreate can settle: a cart with or without a checkoutUrl, null, or
\* a thrown Error (with or without a message) or a thrown non-Error
CartReplies ==
    {[kind |-> "cart", checkoutUrl |-> <<"https://shop/checkout">>, message |-> Null],
     [kind |-> "cart", checkoutUrl |-> <<>>, message |-> Null],
     [kind |-> "cart", checkoutUrl |-> Null, message |-> Null],
     [kind |-> "null", checkoutUrl |-> Null, message |-> Null],
     [kind |-> "Error", checkoutUrl |-> Null, message |-> <<"Network error">>],
     [kind |-> "Error", checkoutUrl |-> Null, message |-> <<>>],
     [kind |-> "thrown", checkoutUrl |-> Null, message |-> Null]}

\* cart?.checkoutUrl
checkoutUrlOf(reply) == IF reply.kind = "cart" THEN reply.checkoutUrl ELSE Null

\* ---- what browser storage can hold when the cart context starts
StoredQuantities == {Undefined, NaN, Infinity, Num(5), Num(10), Num(25), Num(1005)}

StoredKeys ==
    {[slug |-> "tee", size |-> <<"S">>], [slug |-> "tee", size |-> <<"M">>],
     [slug |-> "tee", size |-> <<"L">>], [slug |-> "cap", size |-> Null]}

StoredLines ==
    {[slug |-> k.slug, size |-> k.size, quantity |-> q] : k \in StoredKeys, q \in StoredQuantities}

keyOf(item) == [slug |-> item.slug, size |-> item.size]

StoredCarts ==
    {c \in SeqsUpTo(StoredLines, MaxCartLines) :
        \A i, j \in 1..Len(c) : keyOf(c[i]) = keyOf(c[j]) => i = j}

\* the page is still there: window.location.assign has not been called
appRunning == locationHref = Null

\* ------------------------------------------------------ checkout actions
\* the drawer over a cart restored from storage
InitCheckout ==
    /\ catalogProducts = DrawerCatalog
    /\ cartContextItems \in StoredCarts
    /\ DrawerIdle
    /\ PageParked
    /\ SearchParked
    /\ ListingParked
    /\ RouteParked
    /\ OverlayParked
    /\ ChartParked
    /\ ShellParked
    /\ FormParked

\* the effect that fetches the products the catalog does not hold settles:
\* the fetched ones are stored, the failed ones are removed from the cart
ExternalProductsSettled ==
    /\ appRunning
    /\ LET missingHandles ==
               {h \in cartHandles(cartContextItems) :
                    drawerProduct(catalogProducts, externalProducts, h) = NullRec}
       IN  /\ missingHandles # {}
           /\ \E failures \in SUBSET Handles :
                /\ failures \subseteq missingHandles
                /\ externalProducts' = externalProducts \cup (missingHandles \ failures)
                /\ cartContextItems' =
                       SelectSeq(cartContextItems,
                                 LAMBDA item : ~(item.slug \in failures /\ item.size = Null))
                /\ cartCalls' =
                       IF failures = {} THEN <<>>
                       ELSE <<[op |-> "removeItem", handle |-> CHOOSE h \in failures : TRUE,
                               size |-> Null]>>
    /\ UNCHANGED <<isCheckingOut, checkoutError, checkoutRun, locationHref>>
    /\ UNCHANGED productPageVars
    /\ UNCHANGED notCart

\* click on Checkout: up to the await of the product fetches
handleCheckout ==
    /\ appRunning
    /\ LET cartItems == cartItemsOf(cartContextItems, catalogProducts, externalProducts)
       IN  \* the button is disabled without a ready line or during a checkout
           /\ readyItemsOf(cartItems) # <<>>
           /\ ~(Len(cartContextItems) = 0 \/ isCheckingOut)
           /\ checkoutError' = Null
           /\ isCheckingOut' = TRUE
           /\ checkoutRun' = [NotStarted EXCEPT !.pc = "fetching", !.cartItems = cartItems]
    /\ cartCalls' = <<>>
    /\ UNCHANGED <<cartContextItems, externalProducts, locationHref>>
    /\ UNCHANGED productPageVars
    /\ UNCHANGED notCart

\* Promise.all over handlesToFetch settles; the handler runs on to its next
\* await (cartCreate) or to its end
FetchesSettled ==
    /\ checkoutRun.pc = "fetching"
    /\ \E failed \in SUBSET Handles :
        /\ failed \subseteq handlesToFetch(checkoutRun.cartItems)
        /\ LET missing == collectMissingVariants(checkoutRun.cartItems)
               lines == buildLines(checkoutRun.cartItems)
               message ==
                   IF failed # {} THEN FetchErrorsMessage
                   ELSE IF missing # <<>> THEN MissingVariantsMessage
                   ELSE IF lines = <<>> THEN NoLinesMessage
                   ELSE Null
           IN  IF message # Null
               THEN /\ checkoutError' = message
                    /\ isCheckingOut' = FALSE
                    /\ checkoutRun' =
                           [checkoutRun EXCEPT
                               !.pc = "done",
                               !.fetchErrors = failed,
                               !.missingVariants = IF failed # {} THEN <<>> ELSE missing,
                               !.lines = IF failed # {} THEN <<>> ELSE lines]
               ELSE /\ checkoutRun' = [checkoutRun EXCEPT !.pc = "creating", !.lines = lines]
                    /\ UNCHANGED <<checkoutError, isCheckingOut>>
    /\ cartCalls' = <<>>
    /\ UNCHANGED <<cartContextItems, externalProducts, locationHref>>
    /\ UNCHANGED productPageVars
    /\ UNCHANGED notCart

\* cartCreate(lines) settles; the handler runs to its end
CartCreateSettled(reply) ==
    /\ checkoutRun.pc = "creating"
    /\ checkoutRun' = [checkoutRun EXCEPT !.pc = "done", !.reply = reply]
    /\ isCheckingOut' = FALSE
    /\ IF reply.kind \in {"Error", "thrown"}
       THEN /\ checkoutError' = thrownMessage(reply)
            /\ UNCHANGED locationHref
       ELSE IF checkoutUrlOf(reply) \in {Null, <<>>}
       THEN /\ checkoutError' = NoCheckoutUrlMessage
            /\ UNCHANGED locationHref
       ELSE /\ locationHref' = checkoutUrlOf(reply)
            /\ UNCHANGED checkoutError
    /\ cartCalls' = <<>>
    /\ UNCHANGED <<cartContextItems, externalProducts>>
    /\ UNCHANGED productPageVars
    /\ UNCHANGED notCart

NextCheckout ==
    \/ ExternalProductsSettled
    \/ handleCheckout
    \/ FetchesSettled
    \/ \E reply \in CartReplies : CartCreateSettled(reply)

\* ---------------------------------------------------- checkout properties
Redirected == locationHref # Null

\* cartCreate has been called by the latest run of the handler
CartCreateCalled == checkoutRun.pc = "creating" \/ checkoutRun.reply.kind # "none"

\* the line came with a product, and the product sells a variant with an id
\* in the line's size
LineResolved(lineItem) ==
    /\ ~lineItem.loading
    /\ lineItem.product # NullRec
    /\ \E i \in 1..Len(lineItem.product.variants) :
        /\ lineItem.product.variants[i].size = lineItem.size
        /\ lineItem.product.variants[i].id \notin {Null, <<>>}

\* C6: the browser is redirected only when every cart line resolved to a
\* product and to a variant id, at least one line was built and cartCreate
\* returned a cart with a checkoutUrl; a run that ends without a redirect
\* leaves a non-empty checkoutError; while a run is under way checkoutError
\* is null, as the run cleared it when it started.
C6_CheckoutHandOff ==
    /\ Redirected =>
        /\ \A i \in 1..Len(checkoutRun.cartItems) : LineResolved(checkoutRun.cartItems[i])
        /\ Len(checkoutRun.lines) >= 1
        /\ checkoutRun.reply.kind = "cart"
        /\ checkoutRun.reply.checkoutUrl \notin {Null, <<>>}
        /\ locationHref = checkoutRun.reply.checkoutUrl
    /\ (checkoutRun.pc = "done" /\ ~Redirected) =>
        /\ checkoutError # Null
        /\ Len(checkoutError) >= 1
    /\ checkoutRun.pc \in {"fetching", "creating"} =>
        /\ checkoutError = Null
        /\ ~Redirected

\* a redirect happened for a cart of two lines, one of which was left out of
\* the request
C6_Witness ==
    /\ Redirected
    /\ Len(checkoutRun.cartItems) = 2
    /\ Len(checkoutRun.lines) = 1

\* the cart lines of the run whose quantity is a finite number of at least 1
RequestableItems ==
    SelectSeq(checkoutRun.cartItems,
              LAMBDA item : item.quantity.kind = "number" /\ item.quantity.tenths >= 10)

\* C7: every line passed to cartCreate carries a non-null merchandiseId and
\* an integer quantity from 1 to 99; the cart lines whose quantity is not a
\* finite number or is below 1 are the ones left out; cartCreate is never
\* called with an empty list.
C7_CartCreateRequest ==
    CartCreateCalled =>
        /\ checkoutRun.lines # <<>>
        /\ \A k \in 1..Len(checkoutRun.lines) :
            LET line == checkoutRun.lines[k]
            IN  /\ line.merchandiseId # Null
                /\ line.quantity.kind = "number"
                /\ line.quantity.tenths % 10 = 0
                /\ line.quantity.tenths >= 10
                /\ line.quantity.tenths <= 990
        /\ Len(checkoutRun.lines) = Len(RequestableItems)
        /\ \A k \in 1..Len(checkoutRun.lines) :
            \E i \in 1..Len(RequestableItems[k].product.variants) :
                /\ RequestableItems[k].product.variants[i].size = RequestableItems[k].size
                /\ RequestableItems[k].product.variants[i].id =
                       checkoutRun.lines[k].merchandiseId

\* cartCreate was called for a cart of two lines: one was left out, the other
\* asked for more than 99 and goes out with 99
C7_Witness ==
    /\ CartCreateCalled
    /\ Len(checkoutRun.cartItems) = 2
    /\ Len(checkoutRun.lines) = 1
    /\ checkoutRun.lines[1].quantity = Num(990)
    /\ \E i \in 1..2 : checkoutRun.cartItems[i].quantity = Num(1005)

\* ============================================================ product page
notDefaultTitle(value) == value # Null /\ value # <<>> /\ value # DefaultTitle

\* Set.prototype.add on an insertion-ordered set
addToSet(list, value) ==
    IF \E i \in 1..Len(list) : list[i] = value THEN list ELSE Append(list, value)

RECURSIVE addAllToSet(_, _)
addAllToSet(list, values) ==
    IF values = <<>> THEN list
    ELSE addAllToSet(addToSet(list, Head(values)), Tail(values))

\* what one variant adds to variantSizes: its size option, then the tokens of
\* its title unless it is the default title
variantSizeTokens(variant) ==
    (IF variant.size \notin {Null, <<>>} THEN <<variant.size>> ELSE <<>>)
        \o (IF \E i \in 1..Len(variant.title) : variant.title[i] = DefaultTitle
            THEN <<>>
            ELSE SelectSeq(variant.title, LAMBDA token : token # <<>>))

\* useMemo sizeOptions
productSizeOptions(product) ==
    IF product = NullRec THEN <<>>
    ELSE IF Len(product.optionValues.size) > 0 THEN product.optionValues.size
    ELSE IF Len(product.sizeOptionValues) > 0
    THEN SelectSeq(product.sizeOptionValues, notDefaultTitle)
    ELSE LET variantSizes ==
                 addAllToSet(<<>>, Flatten([i \in 1..Len(product.variants) |->
                                               variantSizeTokens(product.variants[i])]))
         IN  IF variantSizes = <<>> /\ Len(product.sizeChartRows) > 0
             THEN addAllToSet(<<>>, SelectSeq(product.sizeChartRows,
                                              LAMBDA row : row \notin {Null, <<>>}))
             ELSE variantSizes

\* String.prototype.toLowerCase
lowerText(s) == [i \in 1..Len(s) |-> toLowerCase(s[i])]

\* the selection is left as it was
keepSelection(product, options, focus, previous) == previous

\* the effect on [product, sizeOptions, location.state]: the option matching
\* focusSize, else the first option, else null
selectionAfterEffect(product, options, focus, previous) ==
    IF product = NullRec THEN previous
    ELSE LET matching == {i \in 1..Len(options) : lowerText(options[i]) = lowerText(focus)}
         IN  IF focus \notin {Null, <<>>} /\ matching # {}
             THEN options[CHOOSE i \in matching : \A j \in matching : i <= j]
             ELSE IF options # <<>> THEN options[1] ELSE Null

\* hasSizes ? (selectedSize ?? sizeOptions[0] ?? null) : null
sizeToAdd(selected, options) ==
    IF options = <<>> THEN Null
    ELSE IF selected # Null THEN selected
    ELSE options[1]

\* the page renders the product and its buttons
pageShowsProduct ==
    /\ pageSlug # NoSlug
    /\ ~pageLoading
    /\ pageProduct # NullRec
    /\ ~pageError

FocusSizes == {Null, <<"m">>}

\* the sizes a size button can carry
PageSizes == {<<"S">>, <<"M">>}

\* the cart stays within the model's bounds
withinBounds(items) ==
    /\ Len(items) <= MaxCartLines
    /\ \A i \in 1..Len(items) :
        items[i].quantity.kind = "number" => items[i].quantity.tenths <= MaxQuantity * 10

\* --------------------------------------------------- product page actions
\* first visit: nothing in storage, no page mounted
InitCartLines ==
    /\ catalogProducts = DrawerCatalog
    /\ cartContextItems = <<>>
    /\ DrawerIdle
    /\ PageParked
    /\ SearchParked
    /\ ListingParked
    /\ RouteParked
    /\ OverlayParked
    /\ ChartParked
    /\ ShellParked
    /\ FormParked

\* navigation to /product/<slug>, with or without a focusSize in the
\* location state: the load effect runs when the slug changed, the selection
\* effect when the product or the location state changed
OpenProduct(slug, focus) ==
    /\ appRunning
    /\ slug # pageSlug \/ focus # focusSize
    /\ LET reload == slug # pageSlug
           cached == getProduct(catalogProducts, slug)
           product == IF reload THEN cached ELSE pageProduct
       IN  /\ pageSlug' = slug
           /\ focusSize' = focus
           /\ pageProduct' = product
           /\ pageLoading' = (IF reload THEN cached = NullRec ELSE pageLoading)
           /\ pageError' = (IF reload THEN FALSE ELSE pageError)
           /\ productFetchPending' = (IF reload THEN TRUE ELSE productFetchPending)
           /\ selectedSize' =
                  IF pageSlug = NoSlug \/ product # pageProduct \/ focus # focusSize
                  THEN selectionAfterEffect(product, productSizeOptions(product), focus,
                                            selectedSize)
                  ELSE selectedSize
    /\ cartCalls' = <<>>
    /\ UNCHANGED drawerVars
    /\ UNCHANGED notCart

\* navigation to another route: the page unmounts
LeaveProductPage ==
    /\ appRunning
    /\ pageSlug # NoSlug
    /\ pageSlug' = NoSlug
    /\ pageProduct' = NullRec
    /\ pageLoading' = FALSE
    /\ pageError' = FALSE
    /\ selectedSize' = Null
    /\ focusSize' = Null
    /\ productFetchPending' = FALSE
    /\ cartCalls' = <<>>
    /\ UNCHANGED drawerVars
    /\ UNCHANGED notCart

\* fetchProductByHandle(slug) resolves, with the product or with null, and
\* load() runs on to its finally block (the size buttons and the add
\* buttons are rendered only once loading is false)
ProductLoaded(found) ==
    /\ appRunning
    /\ productFetchPending
    /\ LET full == IF found THEN FetchedProduct(pageSlug) ELSE NullRec
       IN  /\ pageProduct' = full
           /\ selectedSize' =
                  selectionAfterEffect(full, productSizeOptions(full), focusSize, selectedSize)
    /\ pageLoading' = FALSE
    /\ productFetchPending' = FALSE
    /\ cartCalls' = <<>>
    /\ UNCHANGED <<pageSlug, pageError, focusSize>>
    /\ UNCHANGED drawerVars
    /\ UNCHANGED notCart

\* fetchProductByHandle(slug) rejects
ProductLoadFailed ==
    /\ appRunning
    /\ productFetchPending
    /\ pageError' = TRUE
    /\ pageProduct' = NullRec
    /\ pageLoading' = FALSE
    /\ productFetchPending' = FALSE
    /\ cartCalls' = <<>>
    /\ UNCHANGED <<pageSlug, selectedSize, focusSize>>
    /\ UNCHANGED drawerVars
    /\ UNCHANGED notCart

\* click on a size button
selectSize(size) ==
    /\ appRunning
    /\ pageShowsProduct
    /\ size \in Range(productSizeOptions(pageProduct))
    /\ selectedSize' = size
    /\ cartCalls' = <<>>
    /\ UNCHANGED <<pageSlug, pageProduct, pageLoading, pageError, focusSize,
                   productFetchPending>>
    /\ UNCHANGED drawerVars
    /\ UNCHANGED notCart

\* addItem(product.handle, { size: hasSizes ? size : null })
addSelectedToCart ==
    LET size == sizeToAdd(selectedSize, productSizeOptions(pageProduct))
        next == addItem(cartContextItems, pageProduct.handle, size)
    IN  /\ withinBounds(next)
        /\ cartContextItems' = next
        /\ cartCalls' = <<[op |-> "addItem", handle |-> pageProduct.handle, size |-> size]>>

\* click on Add to Cart (the notification and the opening of the drawer are
\* not state of this model)
handleAddToCart ==
    /\ appRunning
    /\ pageShowsProduct
    /\ addSelectedToCart
    /\ UNCHANGED <<externalProducts, isCheckingOut, checkoutError, checkoutRun, locationHref>>
    /\ UNCHANGED productPageVars
    /\ UNCHANGED notCart

\* click on Buy Now (the opening of the drawer is not state of this model)
handleBuyNow ==
    /\ appRunning
    /\ pageShowsProduct
    /\ addSelectedToCart
    /\ UNCHANGED <<externalProducts, isCheckingOut, checkoutError, checkoutRun, locationHref>>
    /\ UNCHANGED productPageVars
    /\ UNCHANGED notCart

\* ---------------------------------------------------- cart drawer controls
displayItems ==
    displayItemsOf(cartItemsOf(cartContextItems, catalogProducts, externalProducts))

drawerCall(op, item) ==
    /\ cartCalls' = <<[op |-> op, handle |-> item.handle, size |-> item.size]>>
    /\ UNCHANGED <<externalProducts, isCheckingOut, checkoutError, checkoutRun, locationHref>>
    /\ UNCHANGED productPageVars
    /\ UNCHANGED notCart

\* updateQuantity(item.handle, item.size ?? null, item.quantity - 1)
decreaseQuantity(i) ==
    /\ appRunning
    /\ i \in 1..Len(displayItems)
    /\ cartContextItems' =
           updateQuantity(cartContextItems, displayItems[i].handle, displayItems[i].size,
                          plus(displayItems[i].quantity, -1))
    /\ drawerCall("updateQuantity", displayItems[i])

\* updateQuantity(item.handle, item.size ?? null, item.quantity + 1)
increaseQuantity(i) ==
    /\ appRunning
    /\ i \in 1..Len(displayItems)
    /\ LET next == updateQuantity(cartContextItems, displayItems[i].handle,
                                  displayItems[i].size, plus(displayItems[i].quantity, 1))
       IN  /\ withinBounds(next)
           /\ cartContextItems' = next
    /\ drawerCall("updateQuantity", displayItems[i])

\* removeItem(item.handle, item.size ?? null)
removeLine(i) ==
    /\ appRunning
    /\ i \in 1..Len(displayItems)
    /\ cartContextItems' =
           removeItem(cartContextItems, displayItems[i].handle, displayItems[i].size)
    /\ drawerCall("removeItem", displayItems[i])

NextCartLines ==
    \/ \E slug \in Handles, focus \in FocusSizes : OpenProduct(slug, focus)
    \/ LeaveProductPage
    \/ \E found \in BOOLEAN : ProductLoaded(found)
    \/ ProductLoadFailed
    \/ \E size \in PageSizes : selectSize(size)
    \/ handleAddToCart
    \/ handleBuyNow
    \/ ExternalProductsSettled
    \/ \E i \in 1..MaxCartLines : decreaseQuantity(i)
    \/ \E i \in 1..MaxCartLines : increaseQuantity(i)
    \/ \E i \in 1..MaxCartLines : removeLine(i)

\* --------------------------------------------------- cart line properties
\* the call addresses the line: its handle and its size
addresses(call, item) == call.handle = item.handle /\ call.size = item.size

\* the lines of the cart the call does not address are still in the cart
othersKept(call) ==
    \A k \in 1..Len(cartContextItems) :
        ~sameLine(cartContextItems[k], call.handle, call.size)
            => \E m \in 1..Len(cartContextItems') : cartContextItems'[m] = cartContextItems[k]

\* C8: Add to Cart and Buy Now each issue exactly one addItem, for the
\* displayed product's handle, with a size out of the product's size options
\* when it has sizes and null when it has none; the decrease, increase and
\* remove controls of a drawer line pass that line's own handle and size, and
\* the lines with another handle or size stay as they are.
C8_CartLineAddressing ==
    [][/\ (handleAddToCart \/ handleBuyNow) =>
            /\ Len(cartCalls') = 1
            /\ cartCalls'[1].op = "addItem"
            /\ cartCalls'[1].handle = pageProduct.handle
            /\ IF productSizeOptions(pageProduct) # <<>>
               THEN cartCalls'[1].size \in Range(productSizeOptions(pageProduct))
               ELSE cartCalls'[1].size = Null
       /\ \A i \in 1..MaxCartLines :
            (decreaseQuantity(i) \/ increaseQuantity(i) \/ removeLine(i)) =>
                /\ Len(cartCalls') = 1
                /\ cartCalls'[1].op \in {"updateQuantity", "removeItem"}
                /\ addresses(cartCalls'[1], displayItems[i])
                /\ othersKept(cartCalls'[1])
      ]_vars

\* a control of the tee in S has just been used while the cart also holds the
\* tee in M, which still has its own quantity
C8_Witness ==
    /\ Len(cartCalls) = 1
    /\ cartCalls[1].op = "updateQuantity"
    /\ cartCalls[1].handle = "tee"
    /\ cartCalls[1].size = <<"S">>
    /\ \E i, j \in 1..Len(cartContextItems) :
        /\ cartContextItems[i] = [slug |-> "tee", size |-> <<"S">>, quantity |-> Num(20)]
        /\ cartContextItems[j] = [slug |-> "tee", size |-> <<"M">>, quantity |-> Num(10)]

\* ================================================================ routing
\* ---------------------------------------------------------------- bounds
MaxPathLen == 2
MaxRedirects == 2

\* ---- elements of the routes
PageElement(page, initialCategory) ==
    [kind |-> "page", page |-> page, initialCategory |-> initialCategory, slug |-> NoSlug,
     toPath |-> <<>>, toSearch |-> ""]

\* <Navigate to=... replace />
NavigateElement(toPath, toSearch) ==
    [kind |-> "navigate", page |-> "Navigate", initialCategory |-> "all", slug |-> NoSlug,
     toPath |-> toPath, toSearch |-> toSearch]

\* a catch-all that sends the visitor to a path no route declares
catchAllToUndeclared == NavigateElement(<<"home">>, "")

\* <Route path="*" element={<Navigate to="/" replace />} />
catchAllElement == NavigateElement(<<>>, "")

Route(path, index, element) == [path |-> path, index |-> index, element |-> element]

\* the children of the layout route, in the order they are declared
AppRoutes ==
    << Route(<<>>, TRUE, PageElement("HomePage", "all")),
       Route(<<"products">>, FALSE, PageElement("AllProductsPage", "all")),
       Route(<<"shoes">>, FALSE, PageElement("AllProductsPage", "shoes")),
       Route(<<"shoes", "loafers">>, FALSE, PageElement("AllProductsPage", "loafers")),
       Route(<<"shoes", "boots">>, FALSE, PageElement("AllProductsPage", "boots")),
       Route(<<"shoes", "sneakers">>, FALSE, PageElement("AllProductsPage", "sneakers")),
       Route(<<"shoes", "sandals">>, FALSE, PageElement("AllProductsPage", "sandals")),
       Route(<<"apparel">>, FALSE, NavigateElement(<<"products">>, "category=t-shirts")),
       Route(<<"product", ":slug">>, FALSE, PageElement("ProductDetails", "all")),
       Route(<<"cart">>, FALSE, PageElement("CartPage", "all")),
       Route(<<"search">>, FALSE, PageElement("SearchPage", "all")),
       Route(<<"product">>, FALSE, NavigateElement(<<>>, "")),
       Route(<<"*">>, FALSE, catchAllElement) >>

\* ---- how <Routes> picks a route: every pattern that matches the path is a
\* candidate, the one with the highest score wins, declaration order breaks ties
\* paths are matched without regard to case
lowerSegment(segment) == IF segment = "Cart" THEN "cart" ELSE segment

isSplat(pattern) == pattern # <<>> /\ pattern[Len(pattern)] = "*"

segmentScore(segment) ==
    IF segment = "*" THEN 0
    ELSE IF segment = ":slug" THEN 3
    ELSE 10

RECURSIVE sumScores(_)
sumScores(pattern) ==
    IF pattern = <<>> THEN 0 ELSE segmentScore(Head(pattern)) + sumScores(Tail(pattern))

computeScore(route) ==
    Len(route.path) + (IF isSplat(route.path) THEN -2 ELSE 0)
        + (IF route.index THEN 2 ELSE 0) + sumScores(route.path)

matchesPattern(pattern, path) ==
    IF isSplat(pattern)
    THEN /\ Len(path) >= Len(pattern) - 1
         /\ \A i \in 1..(Len(pattern) - 1) :
                pattern[i] = ":slug" \/ lowerSegment(path[i]) = pattern[i]
    ELSE /\ Len(path) = Len(pattern)
         /\ \A i \in 1..Len(pattern) :
                pattern[i] = ":slug" \/ lowerSegment(path[i]) = pattern[i]

\* the index of the route that renders for the path
matchRoutes(path) ==
    LET candidates == {i \in 1..Len(AppRoutes) : matchesPattern(AppRoutes[i].path, path)}
    IN  CHOOSE i \in candidates :
            \A j \in candidates :
                \/ computeScore(AppRoutes[i]) > computeScore(AppRoutes[j])
                \/ (computeScore(AppRoutes[i]) = computeScore(AppRoutes[j]) /\ i <= j)

\* the element rendered for the path, with the slug parameter filled in
elementFor(path) ==
    LET route == AppRoutes[matchRoutes(path)]
    IN  IF route.path = <<"product", ":slug">>
        THEN [route.element EXCEPT !.slug = path[2]]
        ELSE route.element

\* ---- the paths a visitor can enter
Segments ==
    {"products", "shoes", "loafers", "boots", "sneakers", "sandals", "apparel", "product",
     "cart", "search", "Cart", "home"}

\* what a path goes on with beyond the depth of the deepest declared route
TailSegments == {"home", "cart"}

DeclaredDepth == 2

\* any segments up to the declared depth, then tail segments
Paths ==
    {p \o t : p \in SeqsUpTo(Segments, DeclaredDepth),
              t \in SeqsUpTo(TailSegments, MaxPathLen - DeclaredDepth)}

\* -------------------------------------------------------- routing actions
\* the app has been opened on '/'
InitRoute ==
    /\ catalogProducts = <<>>
    /\ RouteParked
    /\ OverlayParked
    /\ ChartParked
    /\ ShellParked
    /\ FormParked
    /\ CartParked
    /\ SearchParked
    /\ ListingParked

\* the visitor enters a URL or follows a link
EnterPath(path) ==
    /\ enteredPath' = path
    /\ routerLocation' = [path |-> path, search |-> ""]
    /\ rendered' = elementFor(path)
    /\ redirectCount' = 0
    /\ UNCHANGED notRoute

\* the effect of a rendered <Navigate>: navigate(to, { replace: true })
NavigateEffect ==
    /\ rendered.kind = "navigate"
    /\ redirectCount < MaxRedirects
    /\ routerLocation' = [path |-> rendered.toPath, search |-> rendered.toSearch]
    /\ rendered' = elementFor(rendered.toPath)
    /\ redirectCount' = redirectCount + 1
    /\ UNCHANGED enteredPath
    /\ UNCHANGED notRoute

NextRoute ==
    \/ \E path \in Paths : EnterPath(path)
    \/ NavigateEffect

\* ----------------------------------------------------- routing properties
LowerPath(path) == [i \in 1..Len(path) |-> lowerSegment(path[i])]

ShoeCategories == {"loafers", "boots", "sneakers", "sandals"}

\* the page the routing table promises for an entered path, and where the
\* router's location ends up
SettledView(path) ==
    LET p == LowerPath(path)
        home == [page |-> "HomePage", initialCategory |-> "all", path |-> <<>>, search |-> ""]
    IN  IF p = <<>> THEN home
        ELSE IF p = <<"products">>
        THEN [page |-> "AllProductsPage", initialCategory |-> "all", path |-> path,
              search |-> ""]
        ELSE IF p = <<"shoes">>
        THEN [page |-> "AllProductsPage", initialCategory |-> "shoes", path |-> path,
              search |-> ""]
        ELSE IF Len(p) = 2 /\ p[1] = "shoes" /\ p[2] \in ShoeCategories
        THEN [page |-> "AllProductsPage", initialCategory |-> p[2], path |-> path,
              search |-> ""]
        ELSE IF Len(p) = 2 /\ p[1] = "product"
        THEN [page |-> "ProductDetails", initialCategory |-> "all", path |-> path,
              search |-> ""]
        ELSE IF p = <<"cart">>
        THEN [page |-> "CartPage", initialCategory |-> "all", path |-> path, search |-> ""]
        ELSE IF p = <<"search">>
        THEN [page |-> "SearchPage", initialCategory |-> "all", path |-> path, search |-> ""]
        ELSE IF p = <<"apparel">>
        THEN [page |-> "AllProductsPage", initialCategory |-> "all", path |-> <<"products">>,
              search |-> "category=t-shirts"]
        ELSE home

\* the paths that are answered with a redirect
Redirects(path) ==
    LET p == LowerPath(path)
    IN  /\ p # <<>>
        /\ SettledView(path).path # path

RouteSettles ==
    /\ redirectCount <= 1
    /\ rendered.kind = "page" =>
        /\ rendered.page = SettledView(enteredPath).page
        /\ rendered.initialCategory = SettledView(enteredPath).initialCategory
        /\ routerLocation.path = SettledView(enteredPath).path
        /\ routerLocation.search = SettledView(enteredPath).search
        /\ redirectCount = (IF Redirects(enteredPath) THEN 1 ELSE 0)
        /\ rendered.page = "ProductDetails" => rendered.slug = enteredPath[2]
    /\ rendered.kind = "navigate" =>
        /\ redirectCount = 0
        /\ Redirects(enteredPath)

\* C10: every path settles on one page view after at most one redirect and
\* never loops: each declared path shows its page with its initial category,
\* '/apparel' ends on '/products?category=t-shirts', '/product' without a slug
\* and every undeclared path end on '/'; a rendered redirect always gives way
\* to a page.
C10_Routing == [](RouteSettles) /\ ((rendered.kind = "navigate") ~> (rendered.kind = "page"))

\* an undeclared two-segment path has been redirected once and shows home
C10_Witness ==
    /\ enteredPath = <<"shoes", "home">>
    /\ redirectCount = 1
    /\ rendered.kind = "page"
    /\ rendered.page = "HomePage"
    /\ routerLocation.path = <<>>

\* ================================================== product page: load()
\* (src/src/pages/ProductDetails.jsx, the effect on [slug, getProduct])

\* the four pieces of state load() writes
PageState == <<pageProduct, relatedProducts, pageError, pageLoading>>

pageStateRecord ==
    [product |-> pageProduct, related |-> relatedProducts,
     error |-> pageError, loading |-> pageLoading]

\* a load() call in flight: the slug it was started for, the await it is
\* suspended at, and the cancelled flag of its effect closure
LoadStages == {"product", "recommendations"}

LoadRecords == [slug : Handles, stage : LoadStages, cancelled : BOOLEAN]

\* what fetchProductByHandle settles with: the product, the product without
\* an id, null, or a rejection
ProductReplyKinds == {"product", "noId", "null", "rejected"}

withoutId(product) == [product EXCEPT !.id = Null]

fullOf(slug, kind) ==
    IF kind = "product" THEN FetchedProduct(slug)
    ELSE IF kind = "noId" THEN withoutId(FetchedProduct(slug))
    ELSE NullRec

\* full?.id
hasId(full) == full # NullRec /\ full.id \notin {Null, <<>>}

\* what fetchRecommendedProducts settles with: a list (an entry of it may be
\* null), null, or a rejection
RecommendedProduct == [handle |-> <<"b">>, title |-> <<"B">>]

RecommendationReplies ==
    { [kind |-> "list", list |-> <<RecommendedProduct, NullRec>>],
      [kind |-> "list", list |-> <<>>],
      [kind |-> "null", list |-> <<>>],
      [kind |-> "rejected", list |-> <<>>] }

\* (recs ?? []).map(toProductCard).filter(Boolean)
relatedCards(reply) ==
    LET recs == IF reply.kind = "list" THEN reply.list ELSE <<>>
        cards == [i \in 1..Len(recs) |-> toProductCard(recs[i])]
    IN  SelectSeq(cards, LAMBDA card : card # NullRec)

\* a faulty variant of isCancelled: the flag is never consulted
neverCancelled(load) == FALSE

\* the test every write after an await sits behind: if (!cancelled)
isCancelled(load) == load.cancelled

\* setError(null); setProduct(cached ?? null); setLoading(!cached)
onLoadStarted(state, cached) ==
    [state EXCEPT !.error = FALSE, !.product = cached, !.loading = (cached = NullRec)]

\* if (!cancelled) setProduct(full ?? null)
onProductResolved(state, load, full) ==
    IF isCancelled(load) THEN state ELSE [state EXCEPT !.product = full]

\* else if (!cancelled) setRelatedProducts([])
onNoRecommendationsWanted(state, load) ==
    IF isCancelled(load) THEN state ELSE [state EXCEPT !.related = <<>>]

\* the outer catch: setError(e); setProduct(null); setRelatedProducts([])
onProductRejected(state, load) ==
    IF isCancelled(load) THEN state
    ELSE [state EXCEPT !.error = TRUE, !.product = NullRec, !.related = <<>>]

\* if (!cancelled) setRelatedProducts(cards)
onRecommendationsResolved(state, load, reply) ==
    IF isCancelled(load) THEN state ELSE [state EXCEPT !.related = relatedCards(reply)]

\* a faulty variant of onRecommendationsRejected: the failure is handled like a
\* failure of the product fetch
failWholeLoad(state, load) ==
    IF isCancelled(load) THEN state
    ELSE [state EXCEPT !.error = TRUE, !.product = NullRec, !.related = <<>>]

\* the inner catch: if (!cancelled) setRelatedProducts([])
onRecommendationsRejected(state, load) ==
    IF isCancelled(load) THEN state ELSE [state EXCEPT !.related = <<>>]

\* finally: if (!cancelled) setLoading(false)
onFinally(state, load) ==
    IF isCancelled(load) THEN state ELSE [state EXCEPT !.loading = FALSE]

\* the effect's cleanup: cancelled = true, in the closure of each earlier run
cancelAll(running) == {[load EXCEPT !.cancelled = TRUE] : load \in running}

liveLoads(running) == {load \in running : ~load.cancelled}

\* the commit of a new page state; the selection effect runs when the
\* product changed
commitPageState(state) ==
    /\ pageProduct' = state.product
    /\ relatedProducts' = state.related
    /\ pageError' = state.error
    /\ pageLoading' = state.loading
    /\ selectedSize' =
           IF state.product = pageProduct THEN selectedSize
           ELSE selectionAfterEffect(state.product, productSizeOptions(state.product),
                                     focusSize, selectedSize)

\* the effect body: the cleanup of the previous run, then load() up to its
\* first await
runLoadEffect(slug, state) ==
    /\ pageSlug' = slug
    /\ commitPageState(onLoadStarted(state, getProduct(catalogProducts, slug)))
    /\ loads' = cancelAll(loads) \cup {[slug |-> slug, stage |-> "product", cancelled |-> FALSE]}
    /\ fetchIssued' = slug
    /\ productFetchPending' = TRUE
    /\ UNCHANGED focusSize
    /\ UNCHANGED notProductLoad

\* the page as it stands right after construction
InitProductLoad ==
    /\ catalogProducts = DrawerCatalog
    /\ cartContextItems = <<>>
    /\ DrawerIdle
    /\ PageParked
    /\ SearchParked
    /\ ListingParked
    /\ RouteParked
    /\ OverlayParked
    /\ ChartParked
    /\ ShellParked
    /\ FormParked

\* the route /product/<slug> mounts the page: useState(initialProduct ?? null),
\* useState(!initialProduct), useState(null), useState([]), then the effect
MountProductPage(slug) ==
    /\ pageSlug = NoSlug
    /\ runLoadEffect(slug, [product |-> NullRec, related |-> <<>>,
                            error |-> FALSE, loading |-> FALSE])

\* navigation from one product to another keeps the component and its state
SlugChanged(slug) ==
    /\ pageSlug \notin {NoSlug, slug}
    /\ runLoadEffect(slug, pageStateRecord)

\* the catalog context hands out a new getProduct: the effect runs again
GetProductChanged ==
    /\ pageSlug # NoSlug
    /\ runLoadEffect(pageSlug, pageStateRecord)

\* the page unmounts: the cleanup runs and the component's state is gone
PageUnmounted ==
    /\ pageSlug # NoSlug
    /\ pageSlug' = NoSlug
    /\ pageProduct' = NullRec
    /\ relatedProducts' = <<>>
    /\ pageError' = FALSE
    /\ pageLoading' = FALSE
    /\ selectedSize' = Null
    /\ loads' = cancelAll(loads)
    /\ fetchIssued' = NoSlug
    /\ productFetchPending' = FALSE
    /\ UNCHANGED focusSize
    /\ UNCHANGED notProductLoad

\* await fetchProductByHandle(slug) settles in the load() call `load`
ProductFetchSettled(load, kind) ==
    /\ load \in loads
    /\ load.stage = "product"
    /\ LET full == fullOf(load.slug, kind)
           awaitsMore == kind # "rejected" /\ hasId(full)
           written ==
               IF kind = "rejected"
               THEN onFinally(onProductRejected(pageStateRecord, load), load)
               ELSE IF awaitsMore
               THEN onProductResolved(pageStateRecord, load, full)
               ELSE onFinally(onNoRecommendationsWanted(
                                  onProductResolved(pageStateRecord, load, full), load), load)
       IN  /\ commitPageState(written)
           /\ loads' = IF awaitsMore
                       THEN (loads \ {load}) \cup {[load EXCEPT !.stage = "recommendations"]}
                       ELSE loads \ {load}
    /\ productFetchPending' = (productFetchPending /\ isCancelled(load))
    /\ fetchIssued' = NoSlug
    /\ UNCHANGED <<pageSlug, focusSize>>
    /\ UNCHANGED notProductLoad

\* await fetchRecommendedProducts(full, 4) settles in the load() call `load`
RecommendationsSettled(load, reply) ==
    /\ load \in loads
    /\ load.stage = "recommendations"
    /\ LET written ==
               IF reply.kind = "rejected"
               THEN onRecommendationsRejected(pageStateRecord, load)
               ELSE onRecommendationsResolved(pageStateRecord, load, reply)
       IN  commitPageState(onFinally(written, load))
    /\ loads' = loads \ {load}
    /\ fetchIssued' = NoSlug
    /\ UNCHANGED <<pageSlug, focusSize, productFetchPending>>
    /\ UNCHANGED notProductLoad

\* the load() call of the current effect run is resumed by its promise
LiveLoadSettles ==
    \E load \in LoadRecords :
        /\ ~load.cancelled
        /\ \/ \E kind \in ProductReplyKinds : ProductFetchSettled(load, kind)
           \/ \E reply \in RecommendationReplies : RecommendationsSettled(load, reply)

NextProductLoad ==
    \/ \E slug \in Handles : MountProductPage(slug)
    \/ \E slug \in Handles : SlugChanged(slug)
    \/ GetProductChanged
    \/ PageUnmounted
    \/ \E load \in LoadRecords, kind \in ProductReplyKinds : ProductFetchSettled(load, kind)
    \/ \E load \in LoadRecords, reply \in RecommendationReplies :
           RecommendationsSettled(load, reply)

\* ---------------------------------------------- properties of load()
\* the early returns of the render: Loading product..., NotFound, the product
renderedView ==
    IF pageLoading THEN "loading"
    ELSE IF pageProduct = NullRec \/ pageError THEN "notFound"
    ELSE "product"

\* this step started a load() call
aLoadStarts == fetchIssued' # NoSlug

\* this step resumed a load() call whose effect run had been cleaned up
staleLoadSettles ==
    /\ loads' # loads
    /\ liveLoads(loads') = liveLoads(loads)
    /\ fetchIssued' = NoSlug
    /\ pageSlug' = pageSlug

\* this step resumed the load() call started for the current slug
currentLoadSettles ==
    \E load \in liveLoads(loads) : load.slug = pageSlug /\ load \notin loads'

\* C11: a load() call whose slug has changed since, or whose page has
\* unmounted, writes none of product, relatedProducts, error and loading
\* when its fetches settle; that state changes only when a load starts, when
\* the page unmounts, or when the load started for the current slug settles,
\* and the only uncancelled load is one for the current slug.
C11_StaleLoadsDiscarded ==
    [][ /\ staleLoadSettles => PageState' = PageState
        /\ PageState' # PageState =>
               aLoadStarts \/ pageSlug' = NoSlug \/ currentLoadSettles
        /\ \A load \in liveLoads(loads') : load.slug = pageSlug'
        /\ Cardinality(liveLoads(loads')) <= 1 ]_vars

\* the product fetch started for "cap" has settled after the slug became
\* "tee", and the page still shows the tee
C11_Witness ==
    /\ pageSlug = "tee"
    /\ pageProduct # NullRec
    /\ pageProduct.handle = "tee"
    /\ [slug |-> "cap", stage |-> "recommendations", cancelled |-> TRUE] \in loads

NotFoundState ==
    /\ pageError
    /\ pageProduct = NullRec
    /\ relatedProducts = <<>>
    /\ ~pageLoading

productFetchRejects ==
    \E load \in liveLoads(loads) : ProductFetchSettled(load, "rejected")

onlyRecommendationsReject ==
    \E load \in liveLoads(loads) :
        RecommendationsSettled(load, [kind |-> "rejected", list |-> <<>>])

\* C12: when the product fetch of the current load rejects the page is left
\* with error set, product null, relatedProducts empty and loading false,
\* which renders NotFound; when only the recommendations fetch rejects the
\* product stays, relatedProducts is empty, no error is set and loading is
\* false; and unless loads keep being started, loading ends up false.
C12_LoadFailureHandling ==
    /\ [][ /\ productFetchRejects => NotFoundState' /\ renderedView' = "notFound"
           /\ onlyRecommendationsReject =>
                  /\ pageProduct' = pageProduct
                  /\ pageProduct' # NullRec
                  /\ relatedProducts' = <<>>
                  /\ ~pageError'
                  /\ ~pageLoading' ]_vars
    /\ (<>[](~pageLoading) \/ []<><<aLoadStarts>>_vars)

\* the fetch of the tee, which the catalog holds, has rejected
C12_Witness ==
    /\ pageSlug = "tee"
    /\ NotFoundState
    /\ liveLoads(loads) = {}

cachedProduct == getProduct(catalogProducts, pageSlug)

productFetchUnsettled == \E load \in liveLoads(loads) : load.stage = "product"

currentProductFetchResolves ==
    \E load \in liveLoads(loads) : ProductFetchSettled(load, "product")

\* C16: every mount and slug change calls fetchProductByHandle for the slug;
\* while that fetch is unsettled a cached product is displayed without the
\* loading view; once it resolves the product is the fetched one; and the
\* loading view is shown only while there is no cached product and the
\* product fetch has not settled.
C16_AlwaysFetchFresh ==
    [][ /\ (pageSlug' # pageSlug /\ pageSlug' # NoSlug) =>
               fetchIssued' = pageSlug' /\ productFetchUnsettled'
        /\ (cachedProduct # NullRec /\ productFetchUnsettled) =>
               renderedView = "product" /\ pageProduct = cachedProduct
        /\ currentProductFetchResolves => pageProduct' = FetchedProduct(pageSlug)
        /\ renderedView' = "loading" =>
               cachedProduct' = NullRec /\ productFetchUnsettled' ]_vars

\* ============================================================ search overlay
\* (src/src/components/SearchOverlay.jsx)

\* .slice(0, 6) and searchProducts(term, 6)
OverlayLimit == 6

\* at most this many searchProducts calls are in flight at once
MaxInFlight == 2

\* the overlay's catalogs hold up to this many products
MaxOverlayCatalog == 8

ProductHrefPrefix == <<"/", "p", "r", "o", "d", "u", "c", "t", "/">>

UndefinedText == <<"u", "n", "d", "e", "f", "i", "n", "e", "d">>

ProductWord == <<"P", "r", "o", "d", "u", "c", "t">>

\* ${value} in a template literal; an absent value prints as undefined
templateText(value) == IF value = Null THEN UndefinedText ELSE value

\* Array.prototype.slice(0, count)
sliceTo(list, count) == IF Len(list) <= count THEN list ELSE SubSeq(list, 1, count)

\* the card the overlay builds from a catalog product (title and href; price,
\* img and badge are carried along and read by nothing but the markup)
overlayCard(product) ==
    [title |-> product.title, href |-> ProductHrefPrefix \o templateText(product.handle)]

\* useMemo popularProducts
popularProducts(products) ==
    LET firstProducts == sliceTo(products, OverlayLimit)
        cards == [i \in 1..Len(firstProducts) |-> overlayCard(firstProducts[i])]
    IN  SelectSeq(cards, LAMBDA card : card.href # <<>>)

\* a faulty variant of localMatches: the matches without .slice(0, 6)
allLocalMatches(products, tokens) ==
    LET matched == SelectSeq(products,
                             LAMBDA e : everyTokenIncluded(tokens, buildSearchableText(e)))
        cards == [i \in 1..Len(matched) |-> overlayCard(matched[i])]
    IN  SelectSeq(cards, LAMBDA card : card.href # <<>>)

\* the local branch of the search effect, over useMemo searchIndex
localMatches(products, tokens) ==
    LET searchIndex == [i \in 1..Len(products) |->
                            [product |-> products[i],
                             haystack |-> buildSearchableText(products[i])]]
        matched == SelectSeq(searchIndex, LAMBDA e : everyTokenIncluded(tokens, e.haystack))
        cards == [i \in 1..Len(matched) |-> overlayCard(matched[i].product)]
    IN  sliceTo(SelectSeq(cards, LAMBDA card : card.href # <<>>), OverlayLimit)

\* what searchProducts(term, 6) settles with: nodes found for the term, a
\* list holding a null node, null, or a rejection
RemoteReplyKinds == {"nodes", "nullNode", "null", "rejected"}

remoteNodes(term, kind) ==
    IF kind = "nodes" THEN <<[title |-> term, handle |-> term]>>
    ELSE IF kind = "nullNode" THEN <<NullRec>>
    ELSE <<>>

\* the card the .then callback builds from a node
nodeCard(node) ==
    IF node = NullRec
    THEN [title |-> ProductWord, href |-> ProductHrefPrefix \o UndefinedText]
    ELSE [title |-> IF node.title = Null THEN ProductWord ELSE node.title,
          href |-> ProductHrefPrefix \o templateText(node.handle)]

\* (nodes?.map(...) ?? []).filter((card) => card.href)
remoteCards(term, kind) ==
    LET nodes == remoteNodes(term, kind)
        cards == [i \in 1..Len(nodes) |-> nodeCard(nodes[i])]
    IN  SelectSeq(cards, LAMBDA card : card.href # <<>>)

\* readRecentSearches: the stored JSON when it parses to an array, without
\* its falsy entries; [] when nothing is stored or it does not parse
readRecentSearches(stored) ==
    IF stored.kind = "array"
    THEN SelectSeq(stored.list, LAMBDA item : item \notin {Null, <<>>})
    ELSE <<>>

\* a faulty variant of searchCancelled: the flag is never consulted
searchNeverCancelled(search) == FALSE

\* the test the callbacks of searchProducts make
searchCancelled(search) == search.cancelled

\* the cleanup of the search effect: cancelled = true
cancelSearches(running) == {[search EXCEPT !.cancelled = TRUE] : search \in running}

liveSearches(running) == {search \in running : ~search.cancelled}

overlayState ==
    [query |-> overlayQuery, results |-> overlayResults,
     loading |-> overlayLoading, searches |-> overlaySearches]

\* one run of the search effect (deps open, query, popularProducts,
\* searchIndex): the cleanup of the previous run, then the body
searchEffect(state, open, products) ==
    LET cleaned == [state EXCEPT !.searches = cancelSearches(@)]
        term == trim(state.query)
        tokens == queryTokens(term)
    IN  IF ~open THEN cleaned
        ELSE IF term = <<>>
        THEN [cleaned EXCEPT !.results = popularProducts(products), !.loading = FALSE]
        ELSE IF tokens = <<>>
        THEN [cleaned EXCEPT !.results = <<>>, !.loading = FALSE]
        ELSE IF products # <<>>
        THEN [cleaned EXCEPT !.results = localMatches(products, tokens), !.loading = FALSE]
        ELSE [cleaned EXCEPT !.loading = TRUE,
                             !.searches = @ \cup {[term |-> term, cancelled |-> FALSE]}]

\* the open effect (deps open, popularProducts) followed by the search effect
\* of the same render, which still sees the old query; when setQuery('')
\* changed the query the next render runs the search effect again
openEffects(state, products) ==
    LET first == searchEffect([state EXCEPT !.results = popularProducts(products)],
                              TRUE, products)
    IN  IF state.query = <<>> THEN first
        ELSE searchEffect([first EXCEPT !.query = <<>>], TRUE, products)

commitOverlay(state) ==
    /\ overlayQuery' = state.query
    /\ overlayResults' = state.results
    /\ overlayLoading' = state.loading
    /\ overlaySearches' = state.searches
    /\ Cardinality(state.searches) <= MaxInFlight

\* the overlay's catalog: seven titles hold an "a", two of them an "aa"
OverlayTitle(i) ==
    IF i = 2 THEN <<"b">>
    ELSE IF i = 5 THEN <<"a", " ", "A", "a">>
    ELSE IF i = 7 THEN <<"a", "a">>
    ELSE <<"a">>

DigitAt(i) == IF i = 1 THEN "1" ELSE IF i = 2 THEN "2" ELSE IF i = 3 THEN "3"
              ELSE IF i = 4 THEN "4" ELSE IF i = 5 THEN "5" ELSE IF i = 6 THEN "6"
              ELSE IF i = 7 THEN "7" ELSE IF i = 8 THEN "8" ELSE "9"

OverlayProduct(i) ==
    SearchProduct(OverlayTitle(i), <<DigitAt(i)>>, Null, Null, Null, <<>>, <<>>, <<>>, <<>>)

OverlayCatalogs ==
    {[i \in 1..count |-> OverlayProduct(i)] : count \in 0..MaxOverlayCatalog}

OverlayChars == {"a", " "}

OverlayQueries == SeqsUpTo(OverlayChars, MaxQueryLen)

OverlaySearchRecords == [term : OverlayQueries, cancelled : BOOLEAN]

\* the overlay is mounted closed; the catalog may or may not have arrived
InitOverlay ==
    /\ catalogProducts \in OverlayCatalogs
    /\ SearchParked
    /\ ListingParked
    /\ CartParked
    /\ RouteParked
    /\ OverlayParked
    /\ ChartParked
    /\ ShellParked
    /\ FormParked

\* the parent passes open = true
OpenOverlay ==
    /\ ~overlayOpen
    /\ overlayOpen' = TRUE
    /\ commitOverlay(openEffects(overlayState, catalogProducts))
    /\ recentSearches' = readRecentSearches(storedSearches)
    /\ UNCHANGED <<catalogProducts, inputText, storedSearches, lastPersisted>>
    /\ UNCHANGED notOverlay

\* the parent passes open = false (Close, Escape, a submitted search, a
\* clicked product): the cleanups run and the search effect returns at once
CloseOverlay ==
    /\ overlayOpen
    /\ overlayOpen' = FALSE
    /\ commitOverlay(searchEffect(overlayState, FALSE, catalogProducts))
    /\ UNCHANGED <<catalogProducts, formVars>>
    /\ UNCHANGED notOverlay

\* onChange of the input, and the x button: setQuery(value)
setQuery(value) ==
    /\ overlayOpen
    /\ value # overlayQuery
    /\ commitOverlay(searchEffect([overlayState EXCEPT !.query = value], TRUE, catalogProducts))
    /\ UNCHANGED <<overlayOpen, catalogProducts, formVars>>
    /\ UNCHANGED notOverlay

\* a key typed at the end of the input
TypeChar(c) ==
    /\ Len(overlayQuery) < MaxQueryLen
    /\ setQuery(Append(overlayQuery, c))

\* the last character deleted
DeleteChar ==
    /\ overlayQuery # <<>>
    /\ setQuery(SubSeq(overlayQuery, 1, Len(overlayQuery) - 1))

\* the x button
ClearQuery ==
    /\ overlayQuery # <<>>
    /\ setQuery(<<>>)

\* the catalog context delivers its products: popularProducts and searchIndex
\* change, so both effects run again
OverlayCatalogLoaded(products) ==
    /\ catalogProducts = <<>>
    /\ products # <<>>
    /\ catalogProducts' = products
    /\ IF overlayOpen
       THEN /\ commitOverlay(openEffects(overlayState, products))
            /\ recentSearches' = readRecentSearches(storedSearches)
       ELSE /\ commitOverlay(searchEffect(overlayState, FALSE, products))
            /\ UNCHANGED recentSearches
    /\ UNCHANGED <<overlayOpen, inputText, storedSearches, lastPersisted>>
    /\ UNCHANGED notOverlay

\* searchProducts(term, 6) settles: .then or .catch, then .finally
SearchSettled(search, kind) ==
    /\ search \in overlaySearches
    /\ LET written ==
               IF searchCancelled(search) THEN overlayState
               ELSE [overlayState EXCEPT
                        !.results = IF kind = "rejected" THEN <<>>
                                    ELSE remoteCards(search.term, kind),
                        !.loading = FALSE]
       IN  commitOverlay([written EXCEPT !.searches = @ \ {search}])
    /\ UNCHANGED <<overlayOpen, catalogProducts, formVars>>
    /\ UNCHANGED notOverlay

NextOverlay ==
    \/ OpenOverlay
    \/ CloseOverlay
    \/ \E c \in OverlayChars : TypeChar(c)
    \/ DeleteChar
    \/ ClearQuery
    \/ \E products \in OverlayCatalogs : OverlayCatalogLoaded(products)
    \/ \E search \in OverlaySearchRecords, kind \in RemoteReplyKinds :
           SearchSettled(search, kind)

\* ---------------------------------------------- properties of the overlay
\* this step resumed a search whose effect run had been cleaned up
staleSearchSettles ==
    /\ overlaySearches' # overlaySearches
    /\ overlaySearches' \subseteq overlaySearches
    /\ liveSearches(overlaySearches') = liveSearches(overlaySearches)

\* this step resumed, with a reply of this kind, the search run for the query
\* as it stands
currentSearchSettles(kind) ==
    \E search \in liveSearches(overlaySearches) :
        /\ search.term = trim(overlayQuery)
        /\ SearchSettled(search, kind)

\* C13: a searchProducts reply or failure for a query that has changed since,
\* or that arrives after the overlay closed or the catalog index became
\* available, changes neither productResults nor loading; the only search not
\* cancelled is one for the current query of an open overlay without a
\* catalog; and when that one settles loading is false and productResults is
\* the cards of that query's nodes, empty on failure.
C13_StaleSearchesDiscarded ==
    [][ /\ staleSearchSettles =>
               overlayResults' = overlayResults /\ overlayLoading' = overlayLoading
        /\ \A search \in liveSearches(overlaySearches) :
               /\ overlayOpen
               /\ catalogProducts = <<>>
               /\ search.term = trim(overlayQuery)
        /\ \A kind \in RemoteReplyKinds :
               currentSearchSettles(kind) =>
                   /\ ~overlayLoading'
                   /\ overlayResults' =
                          IF kind = "rejected" THEN <<>>
                          ELSE remoteCards(trim(overlayQuery), kind) ]_vars

\* the search for "a" is still in flight, cancelled, after the query became
\* "aa" and the search for "aa" has delivered its cards
C13_Witness ==
    /\ overlayOpen
    /\ overlayQuery = <<"a", "a">>
    /\ ~overlayLoading
    /\ overlayResults = remoteCards(<<"a", "a">>, "nodes")
    /\ [term |-> <<"a">>, cancelled |-> TRUE] \in overlaySearches

\* the product an overlay card links to
hrefHandle(href) == SubSeq(href, Len(ProductHrefPrefix) + 1, Len(href))

overlaySelection ==
    [i \in 1..Len(overlayResults) |->
        [title |-> overlayResults[i].title, handle |-> hrefHandle(overlayResults[i].href)]]

\* the products the search page shows for the query, in its order
pageSelection(products, q) ==
    LET cards == computeProductResults(products, q)
    IN  [i \in 1..Len(cards) |-> [title |-> cards[i].title, handle |-> cards[i].href]]

catalogSelection(products) ==
    [i \in 1..Len(products) |-> [title |-> products[i].title, handle |-> products[i].handle]]

\* C14: with a non-empty catalog and the overlay open, a non-blank query
\* shows the first 6, in catalog order, of the products the search page's
\* rule selects for that query; a blank query shows the first 6 catalog
\* products with loading false.
C14_OverlayAgreesWithPage ==
    (overlayOpen /\ catalogProducts # <<>>) =>
        IF trim(overlayQuery) = <<>>
        THEN /\ overlaySelection = sliceTo(catalogSelection(catalogProducts), OverlayLimit)
             /\ ~overlayLoading
        ELSE overlaySelection =
                 sliceTo(pageSelection(catalogProducts, overlayQuery), OverlayLimit)

\* the query "a" selects seven products of the catalog and the overlay shows
\* the first six
C14_Witness ==
    /\ overlayOpen
    /\ overlayQuery = <<"a">>
    /\ Len(pageSelection(catalogProducts, overlayQuery)) > OverlayLimit
    /\ Len(overlayResults) = OverlayLimit

\* ============================================================ recent searches
\* (src/src/components/SearchOverlay.jsx 171-203; the search page's
\* callbacks, src/unnamed/part_006 147-179, are the same code)

\* .slice(0, 8)
RecentLimit == 8

\* JSON.stringify(next), as localStorage keeps it
stringify(list) == [kind |-> "array", list |-> list]

\* a faulty variant of persistNext: the earlier entries are not filtered
persistKeepingAll(prev, term) ==
    LET trimmed == trim(term)
    IN  IF trimmed = <<>> THEN prev ELSE sliceTo(<<trimmed>> \o prev, RecentLimit)

\* persistRecentSearch: the list its updater returns; prev when the term is
\* blank and nothing is set
persistNext(prev, term) ==
    LET trimmed == trim(term)
        normalized == normalizeSearchText(trimmed)
        others == SelectSeq(prev, LAMBDA item : normalizeSearchText(item) # normalized)
    IN  IF trimmed = <<>> THEN prev ELSE sliceTo(<<trimmed>> \o others, RecentLimit)

\* removeRecentSearch: the list its updater returns
removeNext(prev, term) ==
    LET normalized == normalizeSearchText(term)
    IN  SelectSeq(prev, LAMBDA item : normalizeSearchText(item) # normalized)

\* a list as the code leaves it in storage when eight searches were made
FullList ==
    << <<"b">>, <<"l">>, <<"m">>, <<"s">>, <<"a", "b">>, <<"b", "a">>, <<"l", "m">>, <<"A">> >>

\* what storage may hold when the component reads it: nothing, or a list the
\* code wrote
StoredValues ==
    {NoStorage} \cup {stringify(SubSeq(FullList, k, RecentLimit)) : k \in 1..(RecentLimit + 1)}

\* terms handed to persistRecentSearch and removeRecentSearch: equal to a
\* stored one after normalising, padded, blank, normalising to nothing, new
RecentTerms == { <<"a">>, <<"A", " ">>, <<" ">>, <<>>, <<"-">>, <<"s", "s">> }

RemovableTerms == RecentTerms \cup {FullList[1], FullList[4]}

notRecent ==
    <<searchVars, listingVars, drawerVars, productPageVars, cartCalls, routeVars, loadVars,
      overlayVars, chartVars, shellVars, inputText>>

\* the component has read the stored list (the open effect of the overlay,
\* the mount effect of the search page)
InitRecent ==
    /\ catalogProducts = <<>>
    /\ SearchParked
    /\ ListingParked
    /\ CartParked
    /\ RouteParked
    /\ OverlayParked
    /\ ChartParked
    /\ ShellParked
    /\ inputText = <<>>
    /\ storedSearches \in StoredValues
    /\ recentSearches = readRecentSearches(storedSearches)
    /\ lastPersisted = Null

persistRecentSearch(term) ==
    /\ trim(term) # <<>>
    /\ recentSearches' = persistNext(recentSearches, term)
    /\ storedSearches' = stringify(recentSearches')
    /\ lastPersisted' = trim(term)
    /\ UNCHANGED notRecent

\* persistRecentSearch with a blank term returns before it sets anything
persistBlank(term) ==
    /\ trim(term) = <<>>
    /\ recentSearches' = persistNext(recentSearches, term)
    /\ UNCHANGED <<storedSearches, lastPersisted>>
    /\ UNCHANGED notRecent

removeRecentSearch(term) ==
    /\ recentSearches' = removeNext(recentSearches, term)
    /\ storedSearches' = stringify(recentSearches')
    /\ UNCHANGED lastPersisted
    /\ UNCHANGED notRecent

clearRecentSearches ==
    /\ recentSearches' = <<>>
    /\ storedSearches' = stringify(<<>>)
    /\ UNCHANGED lastPersisted
    /\ UNCHANGED notRecent

NextRecent ==
    \/ \E term \in RecentTerms : persistRecentSearch(term)
    \/ \E term \in RecentTerms : persistBlank(term)
    \/ \E term \in RemovableTerms : removeRecentSearch(term)
    \/ clearRecentSearches

\* ------------------------------------------ properties of recent searches
normalizedDistinct(list) ==
    \A i, j \in 1..Len(list) :
        normalizeSearchText(list[i]) = normalizeSearchText(list[j]) => i = j

\* list without the entries whose normalised text is that of the term
withoutTerm(list, term) ==
    SelectSeq(list, LAMBDA item : normalizeSearchText(item) # normalizeSearchText(term))

\* what holds of the list whatever was called
RecentListShape ==
    /\ Len(recentSearches) <= RecentLimit
    /\ normalizedDistinct(recentSearches)
    /\ storedSearches = NoStorage \/ storedSearches = stringify(recentSearches)
    /\ storedSearches = NoStorage => lastPersisted = Null

\* what each call does
RecentCalls ==
    /\ \A term \in RecentTerms :
           persistBlank(term) => UNCHANGED <<recentSearches, storedSearches>>
    /\ \A term \in RecentTerms :
           persistRecentSearch(term) =>
               /\ recentSearches'[1] = trim(term)
               /\ storedSearches' = stringify(recentSearches')
    /\ \A term \in RemovableTerms :
           removeRecentSearch(term) =>
               /\ recentSearches' = withoutTerm(recentSearches, term)
               /\ storedSearches' = stringify(recentSearches')
    /\ clearRecentSearches => storedSearches' = stringify(recentSearches')

lastPersistedKept ==
    \E i \in 1..Len(recentSearches) :
        normalizeSearchText(recentSearches[i]) = normalizeSearchText(lastPersisted)

\* C20 as stated: from a stored list without two entries of equal normalised
\* text, after any calls of persistRecentSearch, removeRecentSearch and
\* clearRecentSearches the list has at most 8 entries, no two of equal
\* normalised text, the most recently persisted non-blank term at its head,
\* and the stored value equal to it; a blank persist changes nothing and a
\* remove deletes exactly the entries of the term's normalised text.
C20_RecentSearches ==
    /\ [](RecentListShape)
    /\ [](lastPersisted # Null =>
              recentSearches # <<>> /\ recentSearches[1] = lastPersisted)
    /\ [][RecentCalls]_vars

\* C20, amended: the most recently persisted term is at the head of the list
\* as long as no later remove or clear took it out of the list.
C20_RecentSearchesAmended ==
    /\ [](RecentListShape)
    /\ []((lastPersisted # Null /\ lastPersistedKept) => recentSearches[1] = lastPersisted)
    /\ [][RecentCalls]_vars

\* a new term was persisted into a full list: it is first, the list still has
\* eight entries and the stored "A", the last one, fell off
C20_Witness ==
    /\ lastPersisted = <<"s", "s">>
    /\ recentSearches[1] = <<"s", "s">>
    /\ Len(recentSearches) = RecentLimit
    /\ \A i \in 1..Len(recentSearches) : recentSearches[i] # <<"A">>

\* ======================================================= search page form
\* (src/unnamed/part_006, SearchPage: the input, the recent searches and the
\* two memos)

\* a faulty variant of initialQuery: the memos read the input's text
typedQuery(q, typed) == typed

\* const initialQuery = searchParams.get('q') ?? ''
initialQuery(q, typed) == IF q = Null THEN <<>> ELSE q

\* the two memos of a render: productResults and suggestions
renderedResults(products, q, typed) ==
    computeProductResults(products, initialQuery(q, typed))

renderedSuggestions(products, q, typed) ==
    buildSuggestions(products, trim(initialQuery(q, typed)), SuggestionLimit)

\* the mount effects and the effects of a changed URL: setQuery(initialQuery)
\* and, for a non-blank query, persistRecentSearch(trimmedQuery)
afterUrlEffects(list, q) == persistNext(list, initialQuery(q, <<>>))

FormCatalog ==
    << SearchProduct(<<"a", " ", "b">>, <<"1">>, Null, Null, Null, <<>>, <<>>, <<>>, <<>>),
       SearchProduct(<<"A", "-", "b">>, <<"2">>, <<"b", "b">>, Null, <<>>, <<>>, <<>>, <<>>, <<>>) >>

\* what the user leaves in the input
TypedTexts == { <<>>, <<"a">>, <<"b", " ">>, <<"a", " ", "b">> }

\* the q parameter the page is entered with
EnteredQueries == {Null, <<>>, <<"b">>}

StoredAtMount == {NoStorage, stringify(<< <<"A">> >>)}

notForm ==
    <<listingVars, drawerVars, productPageVars, cartCalls, routeVars, loadVars, overlayVars,
      chartVars, shellVars>>

\* the page is mounted and its mount effects have run
InitForm ==
    /\ catalogProducts \in {<<>>, FormCatalog}
    /\ searchParamsQ \in EnteredQueries
    /\ limit = SuggestionLimit
    /\ inputText = initialQuery(searchParamsQ, <<>>)
    /\ productResults = renderedResults(catalogProducts, searchParamsQ, inputText)
    /\ suggestions = renderedSuggestions(catalogProducts, searchParamsQ, inputText)
    /\ \E stored \in StoredAtMount :
           /\ recentSearches = afterUrlEffects(readRecentSearches(stored), searchParamsQ)
           /\ storedSearches = IF trim(initialQuery(searchParamsQ, <<>>)) = <<>>
                               THEN stored ELSE stringify(recentSearches)
    /\ lastPersisted = IF trim(initialQuery(searchParamsQ, <<>>)) = <<>>
                       THEN Null ELSE trim(searchParamsQ)
    /\ ListingParked
    /\ CartParked
    /\ RouteParked
    /\ OverlayParked
    /\ ChartParked
    /\ ShellParked

\* the render after a state change: both memos
renderForm ==
    /\ productResults' = renderedResults(catalogProducts', searchParamsQ', inputText')
    /\ suggestions' = renderedSuggestions(catalogProducts', searchParamsQ', inputText')
    /\ UNCHANGED limit
    /\ UNCHANGED notForm

\* onChange of the input and the x button: setQuery(value)
setInputText(value) ==
    /\ value # inputText
    /\ inputText' = value
    /\ UNCHANGED <<catalogProducts, searchParamsQ, recentSearches, storedSearches, lastPersisted>>
    /\ renderForm

\* the URL gets q = target after persistRecentSearch(target): the effects
\* set the input to it and persist the trimmed query
goToQuery(target) ==
    /\ trim(target) # <<>>
    /\ searchParamsQ' = target
    /\ inputText' = target
    /\ recentSearches' = afterUrlEffects(persistNext(recentSearches, target), target)
    /\ storedSearches' = stringify(recentSearches')
    /\ lastPersisted' = trim(target)
    /\ UNCHANGED catalogProducts
    /\ renderForm

\* onSubmit of the form
handleSubmit ==
    /\ trim(inputText) # <<>>
    /\ goToQuery(trim(inputText))

\* a click on the i-th recent search
followRecent(i) ==
    /\ i <= Len(recentSearches)
    /\ goToQuery(recentSearches[i])

\* a click on the i-th suggestion
followSuggestion(i) ==
    /\ i <= Len(suggestions)
    /\ goToQuery(suggestions[i])

\* the x button of the i-th recent search
removeRecent(i) ==
    /\ i <= Len(recentSearches)
    /\ removeRecentSearch(recentSearches[i])

\* the catalog context delivers its products
FormCatalogLoaded ==
    /\ catalogProducts = <<>>
    /\ catalogProducts' = FormCatalog
    /\ UNCHANGED <<searchParamsQ, inputText, recentSearches, storedSearches, lastPersisted>>
    /\ renderForm

NextForm ==
    \/ \E value \in TypedTexts : setInputText(value)
    \/ handleSubmit
    \/ \E i \in 1..RecentLimit : followRecent(i)
    \/ \E i \in 1..SuggestionLimit : followSuggestion(i)
    \/ \E i \in 1..RecentLimit : removeRecent(i)
    \/ clearRecentSearches
    \/ FormCatalogLoaded

\* ---------------------------------------------- properties of the form
\* C15: the search page's productResults and suggestions are the values the
\* two memos give for the catalog and the URL query, whatever was typed and
\* whatever the recent searches are; a step that changes neither the catalog
\* nor the URL query (typing, removing or clearing recent searches) leaves
\* both lists as they were.
C15_SearchNonStateful ==
    /\ [](/\ productResults = computeProductResults(catalogProducts, searchParamsQ)
          /\ suggestions = computeSuggestions(catalogProducts, searchParamsQ, SuggestionLimit))
    /\ [][UNCHANGED <<catalogProducts, searchParamsQ>> =>
              UNCHANGED <<productResults, suggestions>>]_vars

\* results are shown for the URL query "b" while the input holds "a" and the
\* recent searches were cleared
C15_Witness ==
    /\ searchParamsQ = <<"b">>
    /\ inputText = <<"a">>
    /\ catalogProducts = FormCatalog
    /\ productResults # <<>>
    /\ recentSearches = <<>>
    /\ lastPersisted # Null

\* ===================================================== sizes and size chart
\* (src/src/pages/ProductDetails.jsx: getMetafield, the size chart memo,
\* sizeOptions, the size chart modal)

\* String.prototype.toLowerCase for the letters of this section
lowerAscii(c) ==
    CASE c = "D" -> "d"
      [] c = "T" -> "t"
      [] c = "P" -> "p"
      [] c = "N" -> "n"
      [] c = "G" -> "g"
      [] c = "H" -> "h"
      [] c = "I" -> "i"
      [] c = "Z" -> "z"
      [] c = "E" -> "e"
      [] OTHER -> toLowerCase(c)

lowerAsciiText(text) == [i \in 1..Len(text) |-> lowerAscii(text[i])]

endsWith(hay, needle) ==
    /\ Len(needle) <= Len(hay)
    /\ SubSeq(hay, Len(hay) - Len(needle) + 1, Len(hay)) = needle

\* /default\s*title/i.test(text)
matchesDefaultTitle(text) ==
    LET lower == lowerAsciiText(text)
        word1 == <<"d", "e", "f", "a", "u", "l", "t">>
        word2 == <<"t", "i", "t", "l", "e">>
    IN  \E i \in 1..(Len(lower) - Len(word1) + 1) :
            /\ SubSeq(lower, i, i + Len(word1) - 1) = word1
            /\ \E j \in (i + Len(word1))..(Len(lower) - Len(word2) + 1) :
                   /\ \A k \in (i + Len(word1))..(j - 1) : IsSpace(lower[k])
                   /\ SubSeq(lower, j, j + Len(word2) - 1) = word2

\* /<[^>]+>/.test(text)
hasTag(text) ==
    \E i, j \in 1..Len(text) :
        /\ text[i] = "<"
        /\ text[j] = ">"
        /\ j >= i + 2
        /\ \A k \in (i + 1)..(j - 1) : text[k] # ">"

\* /^https?:\/\//i.test(text)
isHttpUrl(text) ==
    \/ startsWith(lowerAsciiText(text), <<"h", "t", "t", "p", ":", "/", "/">>)
    \/ startsWith(lowerAsciiText(text), <<"h", "t", "t", "p", "s", ":", "/", "/">>)

\* /\.(png|jpe?g|webp|gif|svg)$/.test(lower)
ImageExtensions ==
    { <<".", "p", "n", "g">>, <<".", "j", "p", "g">>, <<".", "j", "p", "e", "g">>,
      <<".", "w", "e", "b", "p">>, <<".", "g", "i", "f">>, <<".", "s", "v", "g">> }

isImageName(lower) == \E ext \in ImageExtensions : endsWith(lower, ext)

\* a value that is neither null nor undefined nor ''
truthyText(value) == value # Null /\ value # <<>>

\* a ?? b ?? c ...: the first value that is neither null nor undefined
RECURSIVE coalesce(_)
coalesce(candidates) ==
    IF candidates = <<>> THEN Null
    ELSE IF Head(candidates) # Null THEN Head(candidates)
    ELSE coalesce(Tail(candidates))

\* the keys the row mapper reads from an entry of the JSON
EntryKeys ==
    {"size", "label", "title", "name", "chest", "bust", "width", "chest (in)",
     "shoulder", "shoulder (in)", "across", "length", "length (in)", "height",
     "foot_length_cm", "foot_length_mm", "us_size", "eu_size", "eu"}

\* the row built from one entry; null for an entry that is not an object
mapRow(entry) ==
    IF entry = NullRec THEN NullRec
    ELSE [size |-> coalesce(<<entry["size"], entry["label"], entry["title"], entry["name"]>>),
          chest |-> coalesce(<<entry["chest"], entry["bust"], entry["width"],
                               entry["chest (in)"]>>),
          shoulder |-> coalesce(<<entry["shoulder"], entry["shoulder (in)"], entry["across"]>>),
          length |-> coalesce(<<entry["length"], entry["length (in)"], entry["height"],
                                entry["foot_length_cm"], entry["foot_length_mm"]>>),
          us_size |-> entry["us_size"],
          eu_size |-> coalesce(<<entry["eu_size"], entry["eu"]>>),
          foot_length_cm |-> entry["foot_length_cm"],
          foot_length_mm |-> entry["foot_length_mm"]]

\* parsed.map(...).filter((row) => row?.size)
rowsOf(entries) ==
    LET mapped == [i \in 1..Len(entries) |-> mapRow(entries[i])]
    IN  [isNull |-> FALSE,
         list |-> SelectSeq(mapped, LAMBDA row : row # NullRec /\ truthyText(row.size))]

\* the key has a value other than null and '' in some row
keyHasValue(rows, colKey) == \E i \in 1..Len(rows) : truthyText(rows[i][colKey])

\* the memo's preferredOrder
PreferredOrder ==
    <<"us_size", "eu_size", "foot_length_cm", "foot_length_mm", "chest", "shoulder", "length">>

\* Object.keys of a row, without 'size', in insertion order
RowKeys ==
    <<"chest", "shoulder", "length", "us_size", "eu_size", "foot_length_cm", "foot_length_mm">>

contains(list, item) == \E i \in 1..Len(list) : list[i] = item

\* "Build column definitions based on available keys": the keys of
\* preferredOrder that were counted, else every counted key
sizeChartColumns(rows) ==
    IF rows.isNull \/ rows.list = <<>> THEN <<>>
    ELSE LET counted == SelectSeq(RowKeys, LAMBDA k : keyHasValue(rows.list, k))
             preferred == SelectSeq(PreferredOrder, LAMBDA k : contains(counted, k))
         IN  IF preferred # <<>> THEN preferred ELSE counted

\* the modal's preferred order
ModalPreferred ==
    <<"us_size", "eu_size", "foot_length_cm", "foot_length_mm", "length", "chest", "shoulder">>

\* the modal's autoColumns: sizeChartColumns when it has any, else the keys
\* with a value in the modal's order, else one Length column
autoColumns(rows, columns) ==
    IF columns # <<>> THEN columns
    ELSE LET keys == SelectSeq(RowKeys, LAMBDA k : keyHasValue(rows, k))
             ordered == SelectSeq(ModalPreferred, LAMBDA k : contains(keys, k))
             remaining == SelectSeq(keys, LAMBDA k : ~contains(ModalPreferred, k))
             cols == ordered \o remaining
         IN  IF cols # <<>> THEN cols ELSE <<"length">>

\* url.toLowerCase() tested for an image extension
urlAsImage(url) == IF isImageName(lowerAsciiText(url)) THEN url ELSE Null

urlAsFile(url) == IF isImageName(lowerAsciiText(url)) THEN Null ELSE url

\* the first value of the parsed object that is an array
firstArray(json) ==
    LET arrays == SelectSeq(json.members, LAMBDA member : member.kind = "array")
    IN  IF arrays = <<>> THEN NullRec ELSE Head(arrays)

\* the size chart useMemo over sizeChartField
parseSizeChart(field) ==
    IF field = NullRec THEN NoSizeChart
    ELSE LET val == field.value
             isString == val # NullRec
             text == IF isString THEN trim(val.text) ELSE <<>>
             ref == field.reference
         IN  IF isString /\ startsWith(text, <<"[">>) /\ val.json.kind = "array"
             THEN [NoSizeChart EXCEPT !.rows = rowsOf(val.json.items)]
             ELSE IF /\ isString
                     /\ startsWith(text, <<"{">>)
                     /\ val.json.kind = "object"
                     /\ firstArray(val.json) # NullRec
             THEN [NoSizeChart EXCEPT !.rows = rowsOf(firstArray(val.json).items)]
             ELSE IF isString /\ hasTag(val.text)
             THEN [NoSizeChart EXCEPT !.html = val.text]
             ELSE IF isString /\ isHttpUrl(val.text)
             THEN [NoSizeChart EXCEPT !.imageUrl = urlAsImage(val.text),
                                      !.fileUrl = urlAsFile(val.text)]
             ELSE IF ref.typename = "MediaImage"
             THEN [NoSizeChart EXCEPT !.imageUrl = IF truthyText(ref.url) THEN ref.url ELSE Null]
             ELSE IF ref.typename = "GenericFile"
             THEN IF truthyText(ref.url)
                  THEN [NoSizeChart EXCEPT !.imageUrl = urlAsImage(ref.url),
                                           !.fileUrl = urlAsFile(ref.url)]
                  ELSE NoSizeChart
             ELSE [NoSizeChart EXCEPT !.columns = sizeChartColumns(NoSizeChart.rows)]

\* the keys getMetafield is asked for
SizeChartKeys ==
    {"size_chart_json", "size_chart", "sizechart", "shoe_size_chart", "shoe_sizechart",
     "mens_shoe_size_chart", "mens_shoe_sizechart", "size_chart_url"}

\* getMetafield: the first metafield with one of the keys (the keys of the
\* data are lower case), its string value trimmed, '' turned into null
getMetafield(product, keyList) ==
    IF product = NullRec THEN NullRec
    ELSE LET found == SelectSeq(product.metafields, LAMBDA entry : entry.key \in keyList)
         IN  IF found = <<>> THEN NullRec
             ELSE LET entry == Head(found)
                  IN  IF entry.value = NullRec THEN entry
                      ELSE IF trim(entry.value.text) = <<>>
                      THEN [entry EXCEPT !.value = NullRec]
                      ELSE [entry EXCEPT !.value.text = trim(@)]

sizeChartField(product) == getMetafield(product, SizeChartKeys)

SizeWord == <<"s", "i", "z", "e">>

\* String.prototype.split('/').map((t) => t.trim()).filter(Boolean)
RECURSIVE splitSlash(_, _)
splitSlash(text, cur) ==
    IF text = <<>> THEN <<cur>>
    ELSE IF Head(text) = "/" THEN <<cur>> \o splitSlash(Tail(text), <<>>)
         ELSE splitSlash(Tail(text), Append(cur, Head(text)))

titleTokens(title) ==
    LET pieces == splitSlash(title, <<>>)
        trimmed == [i \in 1..Len(pieces) |-> trim(pieces[i])]
    IN  SelectSeq(trimmed, LAMBDA token : token # <<>>)

\* entries.find(([name]) => name === 'size') || entries.find(... includes('size'))
optionValuesByName(product) ==
    LET named == SelectSeq(product.optionValues, LAMBDA entry : entry.name = SizeWord)
        including == SelectSeq(product.optionValues,
                               LAMBDA entry : includes(entry.name, SizeWord))
    IN  IF named # <<>> THEN Head(named)
        ELSE IF including # <<>> THEN Head(including)
        ELSE NullRec

\* (product.options || []).find((o) => o.name.toLowerCase().includes('size'))
sizeOpt(product) ==
    LET found == SelectSeq(product.options,
                           LAMBDA o : includes(lowerAsciiText(o.name), SizeWord))
    IN  IF found = <<>> THEN NullRec ELSE Head(found)

\* what one variant adds to variantSizes: the values of its selected options
\* named like a size, then the tokens of its title unless the title matches
\* default title
variantAdds(variant) ==
    LET sizeSelections ==
            SelectSeq(variant.selectedOptions,
                      LAMBDA o : includes(lowerAsciiText(o.name), SizeWord)
                                 /\ truthyText(o.value))
        selected == [i \in 1..Len(sizeSelections) |-> sizeSelections[i].value]
        title == IF variant.title = Null THEN <<>> ELSE variant.title
    IN  selected \o (IF title # <<>> /\ ~matchesDefaultTitle(title)
                     THEN titleTokens(title) ELSE <<>>)

\* useMemo sizeOptions over product and sizeChartRows
sizeOptions(product, rows) ==
    IF product = NullRec THEN <<>>
    ELSE LET byName == optionValuesByName(product)
             opt == sizeOpt(product)
             variantSizes ==
                 addAllToSet(<<>>, Flatten([i \in 1..Len(product.variants) |->
                                               variantAdds(product.variants[i])]))
             rowSizes == [i \in 1..Len(rows.list) |-> rows.list[i].size]
         IN  IF byName # NullRec /\ byName.values # <<>> THEN byName.values
             ELSE IF opt # NullRec /\ opt.values # <<>>
             THEN SelectSeq(opt.values,
                            LAMBDA val : truthyText(val) /\ ~matchesDefaultTitle(val))
             ELSE IF variantSizes = <<>> /\ ~rows.isNull /\ rows.list # <<>>
             THEN addAllToSet(<<>>, SelectSeq(rowSizes, truthyText))
             ELSE variantSizes

\* ------------------------------------------- size chart and size options:
\* the inputs.  JSON.parse is not spelled out character by character: a
\* metafield value carries its text and what JSON.parse makes of the text.
NoJson == [kind |-> "error", items |-> <<>>, members |-> <<>>]

jsonArray(items) == [kind |-> "array", items |-> items, members |-> <<>>]

jsonObject(members) == [kind |-> "object", items |-> <<>>, members |-> members]

JsonScalar == [kind |-> "scalar", items |-> <<>>, members |-> <<>>]

\* an entry of a parsed array: its keys among EntryKeys, undefined elsewhere
entryOf(pairs) == [k \in EntryKeys |-> IF k \in DOMAIN pairs THEN pairs[k] ELSE Null]

ApparelEntries ==
    <<entryOf([size |-> <<"S">>, chest |-> <<"3", "8">>, length |-> <<"2", "7">>]),
      entryOf([label |-> <<"M">>, bust |-> <<"4", "0">>, height |-> <<"2", "8">>, across |-> <<"1", "7">>])>>

ShoeEntries ==
    <<entryOf([size |-> <<"7">>, us_size |-> <<"7">>, eu |-> <<"4", "0">>, foot_length_cm |-> <<"2", "5">>]),
      NullRec,
      entryOf([us_size |-> <<"8">>])>>

BareEntries == <<entryOf([name |-> <<"L">>]), entryOf([title |-> <<"M">>, chest |-> <<>>])>>

NoReference == [typename |-> "none", url |-> Null]

stringValue(text, json) == [text |-> text, json |-> json]

ChartValues ==
    { stringValue(<<"[", "a", "]">>, jsonArray(ApparelEntries)),
      stringValue(<<" ", "[", "s", "]">>, jsonArray(ShoeEntries)),
      stringValue(<<"[", "b", "]">>, jsonArray(BareEntries)),
      stringValue(<<"[", "]">>, jsonArray(<<>>)),
      stringValue(<<"[", "<", "b", ">">>, NoJson),
      stringValue(<<"{", "a", "}">>, jsonObject(<<JsonScalar, jsonArray(ApparelEntries),
                                      jsonArray(ShoeEntries)>>)),
      stringValue(<<"{", "}">>, jsonObject(<<JsonScalar>>)),
      stringValue(<<"<", "b", ">">>, NoJson),
      stringValue(<<"H", "T", "T", "P", ":", "/", "/", "a", ".", "P", "N", "G">>, NoJson),
      stringValue(<<"h", "t", "t", "p", "s", ":", "/", "/", "a", ".", "p", "d", "f">>, NoJson),
      stringValue(<<"a">>, NoJson),
      stringValue(<<" ">>, NoJson) }

ChartReferences ==
    { NoReference,
      [typename |-> "MediaImage", url |-> <<"h", "t", "t", "p", "s", ":", "/", "/", "m", ".", "j", "p", "e", "g">>],
      [typename |-> "MediaImage", url |-> Null],
      [typename |-> "GenericFile", url |-> <<"h", "t", "t", "p", "s", ":", "/", "/", "a", ".", "s", "v", "g">>],
      [typename |-> "GenericFile", url |-> <<"h", "t", "t", "p", "s", ":", "/", "/", "a", ".", "p", "d", "f">>],
      [typename |-> "GenericFile", url |-> Null] }

\* the metafields of a product: a size chart field with a string value or with
\* a reference, possibly after a field getMetafield passes over
OtherField == [key |-> "materials", value |-> stringValue(<<"<", "b", ">">>, NoJson), reference |-> NoReference]

ChartFieldEntries ==
    { [key |-> "size_chart", value |-> v, reference |-> NoReference] : v \in ChartValues }
    \cup { [key |-> "size_chart_url", value |-> NullRec, reference |-> r] : r \in ChartReferences }
    \cup { [key |-> "sizechart", value |-> stringValue(<<"a">>, NoJson), reference |-> r] :
             r \in ChartReferences \ {NoReference} }

ChartMetafields ==
    { <<>>, <<OtherField>> }
    \cup { <<f>> : f \in ChartFieldEntries }
    \cup { <<OtherField, f, [f EXCEPT !.value = stringValue(<<"<", "b", ">">>, NoJson)]>> :
             f \in { g \in ChartFieldEntries : g.key = "size_chart" /\ g.value.json.kind = "array" } }

\* the option data of a product: optionValues as its entries in insertion
\* order, options, and the variants' selected options and titles
NoVariant == [selectedOptions |-> <<>>, title |-> <<"D", "e", "f", "a", "u", "l", "t", " ", "T", "i", "t", "l", "e">>]

OptionData ==
    { [optionValues |-> <<[name |-> <<"s", "i", "z", "e", "s">>, values |-> <<<<"L">>>>],
                          [name |-> <<"s", "i", "z", "e">>, values |-> <<<<"S">>, <<"M">>>>]>>,
       options |-> <<[name |-> <<"S", "i", "z", "e">>, values |-> <<<<"B">>>>]>>,
       variants |-> <<NoVariant>>],
      [optionValues |-> <<[name |-> <<"a">>, values |-> <<<<"A">>>>],
                          [name |-> <<"s", "i", "z", "e", "s">>, values |-> <<<<"L">>, <<"L">>>>]>>,
       options |-> <<>>,
       variants |-> <<NoVariant>>],
      [optionValues |-> <<[name |-> <<"s", "i", "z", "e">>, values |-> <<>>],
                          [name |-> <<"s", "i", "z", "e", "s">>, values |-> <<<<"L">>>>]>>,
       options |-> <<[name |-> <<"a">>, values |-> <<<<"A">>>>],
                     [name |-> <<"S", "I", "Z", "E">>, values |-> <<<<"S">>, <<"D", "e", "f", "a", "u", "l", "t", " ", "T", "i", "t", "l", "e">>, <<>>, <<"M">>>>],
                     [name |-> <<"S", "i", "z", "e">>, values |-> <<<<"B">>>>]>>,
       variants |-> <<[selectedOptions |-> <<[name |-> <<"S", "i", "z", "e">>, value |-> <<"L">>]>>, title |-> <<"L">>]>>],
      [optionValues |-> <<>>,
       options |-> <<[name |-> <<"S", "i", "z", "e">>, values |-> <<<<"d", "e", "f", "a", "u", "l", "t", " ", " ", "t", "i", "t", "l", "e">>>>]>>,
       variants |-> <<[selectedOptions |-> <<[name |-> <<"S", "i", "z", "e">>, value |-> <<"L">>]>>, title |-> <<"L">>]>>],
      [optionValues |-> <<>>,
       options |-> <<[name |-> <<"S", "i", "z", "e">>, values |-> <<>>]>>,
       variants |-> <<[selectedOptions |-> <<[name |-> <<"a">>, value |-> <<"A">>],
                                             [name |-> <<"S", "i", "z", "e">>, value |-> <<"S">>]>>,
                       title |-> <<"S", " ", "/", " ", "A">>],
                      [selectedOptions |-> <<[name |-> <<"S", "i", "z", "e">>, value |-> <<"M">>]>>,
                       title |-> <<" ", "M", " ", "/", "S", "/", " ">>],
                      [selectedOptions |-> <<[name |-> <<"S", "i", "z", "e">>, value |-> <<>>]>>,
                       title |-> Null]>>],
      [optionValues |-> <<>>,
       options |-> <<>>,
       variants |-> <<[selectedOptions |-> <<[name |-> <<"S", "i", "z", "e">>, value |-> <<"D", "e", "f", "a", "u", "l", "t", " ", "T", "i", "t", "l", "e">>]>>,
                       title |-> <<"D", "e", "f", "a", "u", "l", "t", " ", "T", "i", "t", "l", "e">>]>>],
      [optionValues |-> <<>>,
       options |-> <<>>,
       variants |-> <<NoVariant>>],
      [optionValues |-> <<>>, options |-> <<>>, variants |-> <<>>] }

chartProductOf(data, metafields) ==
    [optionValues |-> data.optionValues,
     options |-> data.options,
     variants |-> data.variants,
     metafields |-> metafields]

ChartProducts == { chartProductOf(d, m) : d \in OptionData, m \in ChartMetafields }

\* ------------------------------------------- size chart and size options:
\* the product page's state.  What a render derives from product is kept in
\* sizeChartMemo and sizeOptionsMemo and recomputed whenever product is set.
hasSizeChart ==
    \/ sizeChartMemo.rows.list # <<>>
    \/ truthyText(sizeChartMemo.html)
    \/ truthyText(sizeChartMemo.imageUrl)
    \/ truthyText(sizeChartMemo.fileUrl)

canOpenSizeChart == sizeChartField(chartProduct) # NullRec

\* the product view is what the page renders: neither the loading view nor
\* the not-found view
productViewRendered == ~chartLoading /\ chartProduct # NullRec

\* setProduct(next) and the render that follows it
setProduct(next) ==
    /\ chartProduct' = next
    /\ sizeChartMemo' = parseSizeChart(sizeChartField(next))
    /\ sizeOptionsMemo' = sizeOptions(next, parseSizeChart(sizeChartField(next)).rows)

InitSizeChart ==
    /\ catalogProducts = <<>>
    /\ SearchParked
    /\ ListingParked
    /\ CartParked
    /\ RouteParked
    /\ OverlayParked
    /\ FormParked
    /\ chartProduct \in ChartProducts \cup {NullRec}
    /\ sizeChartMemo = parseSizeChart(sizeChartField(chartProduct))
    /\ sizeOptionsMemo = sizeOptions(chartProduct, sizeChartMemo.rows)
    /\ chartLoading = (chartProduct = NullRec)
    /\ chartFetchPending = TRUE
    /\ sizeChartOpen = FALSE
    /\ ShellParked

\* the load effect runs again for a new slug (or a new getProduct) and puts
\* the cached product, if any, on the page
loadStarts(cached) ==
    /\ setProduct(cached)
    /\ chartLoading' = (cached = NullRec)
    /\ chartFetchPending' = TRUE
    /\ UNCHANGED <<sizeChartOpen, notChart>>

\* the product fetch of the current load resolves with full, or rejects
\* (full is null then), and the load reaches its finally
loadFinishes(full) ==
    /\ chartFetchPending
    /\ setProduct(full)
    /\ chartLoading' = FALSE
    /\ chartFetchPending' = FALSE
    /\ UNCHANGED <<sizeChartOpen, notChart>>

\* the Size chart button: onClick={() => canOpenSizeChart && setSizeChartOpen(true)}
openSizeChart ==
    /\ productViewRendered
    /\ canOpenSizeChart
    /\ sizeChartOpen' = TRUE
    /\ UNCHANGED <<chartProduct, sizeChartMemo, sizeOptionsMemo, chartLoading,
                   chartFetchPending, notChart>>

\* the Close button and the backdrop of the modal
closeSizeChart ==
    /\ productViewRendered
    /\ sizeChartOpen
    /\ sizeChartOpen' = FALSE
    /\ UNCHANGED <<chartProduct, sizeChartMemo, sizeOptionsMemo, chartLoading,
                   chartFetchPending, notChart>>

NextSizeChart ==
    \/ \E cached \in ChartProducts \cup {NullRec} : loadStarts(cached)
    \/ \E full \in ChartProducts \cup {NullRec} : loadFinishes(full)
    \/ openSizeChart
    \/ closeSizeChart

\* ------------------------------------------- size chart and size options:
\* what the page shows
\* the modal is on the screen
modalShown == productViewRendered /\ sizeChartOpen

\* the table of the modal is on the screen
tableShown == modalShown /\ sizeChartMemo.rows.list # <<>>

\* the keys of the header cells after Size
tableColumns == autoColumns(sizeChartMemo.rows.list, sizeChartMemo.columns)

\* the content forms the modal displays, each under its own condition
contentForms ==
    LET hasRows == sizeChartMemo.rows.list # <<>>
        hasHtml == truthyText(sizeChartMemo.html)
        hasImage == truthyText(sizeChartMemo.imageUrl)
        hasFile == truthyText(sizeChartMemo.fileUrl)
    IN  (IF hasRows THEN {"table"} ELSE {})
        \cup (IF ~hasRows /\ hasHtml THEN {"html"} ELSE {})
        \cup (IF ~hasRows /\ ~hasHtml /\ hasImage THEN {"image"} ELSE {})
        \cup (IF ~hasRows /\ ~hasHtml /\ ~hasImage /\ hasFile THEN {"file"} ELSE {})
        \cup (IF ~hasRows /\ ~hasHtml /\ ~hasImage /\ ~hasFile /\ canOpenSizeChart
              THEN {"message"} ELSE {})

\* the keys with a value in some row, in the order of the memo's preferredOrder
valuedKeysInOrder(rows) == SelectSeq(PreferredOrder, LAMBDA k : keyHasValue(rows, k))

\* C17: when the size chart metafield parses to JSON rows, the columns of the
\* table are exactly the keys other than 'size' with a non-empty value in at
\* least one row, in the order us_size, eu_size, foot_length_cm,
\* foot_length_mm, chest, shoulder, length.
C17_ColumnsFromRowKeys ==
    tableShown => tableColumns = valuedKeysInOrder(sizeChartMemo.rows.list)

\* the form the priority order table, HTML, image, file link, message picks
formByPriority ==
    IF sizeChartMemo.rows.list # <<>> THEN "table"
    ELSE IF truthyText(sizeChartMemo.html) THEN "html"
    ELSE IF truthyText(sizeChartMemo.imageUrl) THEN "image"
    ELSE IF truthyText(sizeChartMemo.fileUrl) THEN "file"
    ELSE "message"

\* how many of rows, HTML, image URL and file URL the parser populated
populatedOutputs ==
    (IF sizeChartMemo.rows.isNull THEN {} ELSE {"rows"})
    \cup (IF sizeChartMemo.html # Null THEN {"html"} ELSE {})
    \cup (IF sizeChartMemo.imageUrl # Null THEN {"imageUrl"} ELSE {})
    \cup (IF sizeChartMemo.fileUrl # Null THEN {"fileUrl"} ELSE {})

\* C18: whenever the size chart modal is open exactly one content form is
\* displayed, the one the priority order table, HTML, image, file link,
\* message picks; and the parser populates at most one of rows, HTML, image
\* URL and file URL.
C18_OneContentForm ==
    /\ modalShown => contentForms = {formByPriority}
    /\ Cardinality(populatedOutputs) <= 1

\* the list has no two equal entries
noDuplicates(list) == \A i, j \in 1..Len(list) : list[i] = list[j] => i = j

\* the source the size options come from: 1 optionValues, 2 options, 3 variants
sizeSource ==
    IF optionValuesByName(chartProduct) # NullRec
       /\ optionValuesByName(chartProduct).values # <<>> THEN 1
    ELSE IF sizeOpt(chartProduct) # NullRec /\ sizeOpt(chartProduct).values # <<>> THEN 2
    ELSE 3

\* the sizes of the variants: selected options named like a size and the
\* tokens of the titles, in order of first appearance
variantSizesOf(product) ==
    addAllToSet(<<>>, Flatten([i \in 1..Len(product.variants) |->
                                  variantAdds(product.variants[i])]))

\* the sizes of the chart rows, in order of first appearance
chartRowSizes ==
    addAllToSet(<<>>, [i \in 1..Len(sizeChartMemo.rows.list) |->
                          sizeChartMemo.rows.list[i].size])

\* C19: the size options come from optionValues' size entry if it is not
\* empty, otherwise from the values of the first option named like a size
\* without 'Default Title', otherwise from the distinct sizes of the variants,
\* the size chart rows being used only when the variants yield none; the
\* list holds no 'Default Title' from the second and third sources and no
\* duplicates from the variants.
C19_SizeOptionSources ==
    chartProduct # NullRec =>
        /\ sizeSource = 1 => sizeOptionsMemo = optionValuesByName(chartProduct).values
        /\ sizeSource = 2 =>
               sizeOptionsMemo = SelectSeq(sizeOpt(chartProduct).values,
                                           LAMBDA v : truthyText(v) /\ ~matchesDefaultTitle(v))
        /\ sizeSource = 3 =>
               /\ variantSizesOf(chartProduct) # <<>> =>
                      sizeOptionsMemo = variantSizesOf(chartProduct)
               /\ variantSizesOf(chartProduct) = <<>> => sizeOptionsMemo = chartRowSizes
               /\ noDuplicates(sizeOptionsMemo)
        /\ sizeSource \in {2, 3} /\ variantSizesOf(chartProduct) # <<>> =>
               \A i \in 1..Len(sizeOptionsMemo) : ~matchesDefaultTitle(sizeOptionsMemo[i])

\* -------------------------------- recent searches of the overlay and the
\* search page side by side.  Each component keeps its own recentSearches
\* state and writes storage from it; the overlay reads storage in its open
\* effect, the page in its mount effect.  The catalog is empty here, so the
\* results and suggestions of both components stay empty.
SharedTerms == { <<"a">>, <<"b">>, <<"m">> }

SharedStored == { NoStorage, stringify(<< <<"a">> >>), stringify(<< <<"a">>, <<"b">> >>) }

\* searchParams.get('q') ?? ''
queryText(q) == IF q = Null THEN <<>> ELSE q

\* the page's persist effect, which runs when trimmedQuery has changed
afterQueryChange(list, oldQ, newQ) ==
    IF trim(queryText(newQ)) # trim(queryText(oldQ)) /\ trim(queryText(newQ)) # <<>>
    THEN persistNext(list, trim(queryText(newQ)))
    ELSE list

\* the search page is mounted at /search and has read storage; the overlay
\* is mounted closed
InitShared ==
    /\ catalogProducts = <<>>
    /\ SearchParked
    /\ ListingParked
    /\ CartParked
    /\ RouteParked
    /\ OverlayParked
    /\ ChartParked
    /\ inputText = <<>>
    /\ storedSearches \in SharedStored
    /\ recentSearches = readRecentSearches(storedSearches)
    /\ lastPersisted = Null
    /\ overlayRecents = <<>>
    /\ singleList = readRecentSearches(storedSearches)
    /\ ScrollParked

notShared ==
    <<catalogProducts, limit, productResults, suggestions, listingVars, drawerVars,
      productPageVars, cartCalls, routeVars, loadVars, overlayQuery, overlayResults,
      overlayLoading, overlaySearches, chartVars, scrollVars>>

\* the open prop becomes true: the open effect reads storage
sharedOpenOverlay ==
    /\ ~overlayOpen
    /\ overlayOpen' = TRUE
    /\ overlayRecents' = readRecentSearches(storedSearches)
    /\ UNCHANGED <<searchParamsQ, inputText, recentSearches, storedSearches, lastPersisted,
                   singleList, notShared>>

\* onClose from the Close button or Escape
sharedCloseOverlay ==
    /\ overlayOpen
    /\ overlayOpen' = FALSE
    /\ UNCHANGED <<searchParamsQ, inputText, recentSearches, storedSearches, lastPersisted,
                   overlayRecents, singleList, notShared>>

\* the x button of the overlay's i-th recent search
overlayRemoveRecent(i) ==
    /\ overlayOpen
    /\ i <= Len(overlayRecents)
    /\ overlayRecents' = removeNext(overlayRecents, overlayRecents[i])
    /\ storedSearches' = stringify(overlayRecents')
    /\ singleList' = removeNext(singleList, overlayRecents[i])
    /\ UNCHANGED <<searchParamsQ, inputText, recentSearches, lastPersisted, overlayOpen,
                   notShared>>

\* the Clear button of the overlay
overlayClearRecents ==
    /\ overlayOpen
    /\ overlayRecents # <<>>
    /\ overlayRecents' = <<>>
    /\ storedSearches' = stringify(<<>>)
    /\ singleList' = <<>>
    /\ UNCHANGED <<searchParamsQ, inputText, recentSearches, lastPersisted, overlayOpen,
                   notShared>>

\* a click on the overlay's i-th recent search: performSearch persists it,
\* closes the overlay and navigates to /search?q=; the page then runs its
\* effects for the new q
overlayFollowRecent(i) ==
    /\ overlayOpen
    /\ i <= Len(overlayRecents)
    /\ trim(overlayRecents[i]) # <<>>
    /\ LET term == trim(overlayRecents[i])
       IN  /\ overlayRecents' = persistNext(overlayRecents, term)
           /\ overlayOpen' = FALSE
           /\ searchParamsQ' = term
           /\ inputText' = term
           /\ recentSearches' = afterQueryChange(recentSearches, searchParamsQ, term)
           /\ storedSearches' =
                  IF trim(term) # trim(queryText(searchParamsQ))
                  THEN stringify(recentSearches')
                  ELSE stringify(overlayRecents')
           /\ lastPersisted' = term
           /\ singleList' = persistNext(singleList, term)
    /\ UNCHANGED notShared

\* onChange of the page's input
sharedTypeOnPage(value) ==
    /\ ~overlayOpen
    /\ inputText # value
    /\ inputText' = value
    /\ UNCHANGED <<searchParamsQ, recentSearches, storedSearches, lastPersisted, overlayOpen,
                   overlayRecents, singleList, notShared>>

\* onSubmit of the page's form: persistRecentSearch, setSearchParams and the
\* effects for the new q
sharedSubmitOnPage ==
    /\ ~overlayOpen
    /\ trim(inputText) # <<>>
    /\ LET term == trim(inputText)
       IN  /\ searchParamsQ' = term
           /\ inputText' = term
           /\ recentSearches' =
                  afterQueryChange(persistNext(recentSearches, term), searchParamsQ, term)
           /\ storedSearches' = stringify(recentSearches')
           /\ lastPersisted' = term
           /\ singleList' = persistNext(singleList, term)
    /\ UNCHANGED <<overlayOpen, overlayRecents, notShared>>

\* the x button of the page's i-th recent search
pageRemoveRecent(i) ==
    /\ ~overlayOpen
    /\ i <= Len(recentSearches)
    /\ recentSearches' = removeNext(recentSearches, recentSearches[i])
    /\ storedSearches' = stringify(recentSearches')
    /\ singleList' = removeNext(singleList, recentSearches[i])
    /\ UNCHANGED <<searchParamsQ, inputText, lastPersisted, overlayOpen, overlayRecents,
                   notShared>>

\* the Clear button of the page
pageClearRecents ==
    /\ ~overlayOpen
    /\ recentSearches # <<>>
    /\ recentSearches' = <<>>
    /\ storedSearches' = stringify(<<>>)
    /\ singleList' = <<>>
    /\ UNCHANGED <<searchParamsQ, inputText, lastPersisted, overlayOpen, overlayRecents,
                   notShared>>

NextShared ==
    \/ sharedOpenOverlay
    \/ sharedCloseOverlay
    \/ \E i \in 1..RecentLimit : overlayRemoveRecent(i)
    \/ overlayClearRecents
    \/ \E i \in 1..RecentLimit : overlayFollowRecent(i)
    \/ \E value \in SharedTerms : sharedTypeOnPage(value)
    \/ sharedSubmitOnPage
    \/ \E i \in 1..RecentLimit : pageRemoveRecent(i)
    \/ pageClearRecents

\* C21: for any interleaving of persist, remove and clear issued from the
\* overlay and from the search page, the list in storage is the result of
\* applying those operations in the same order to a single list, so a term
\* removed or cleared in one component does not come back with a later
\* persist of the other.
C21_SharedRecentsConsistent == readRecentSearches(storedSearches) = singleList

\* ------------------------------------------------------------ scroll lock
\* The three effects are the same code: on opening they keep body's and
\* html's style.overflow in their closure and set both to 'hidden'; their
\* cleanup writes the kept values back.  The owner of the overlay's and the
\* drawer's open props (Layout) changes them one at a time.
OverflowValues == {"", "auto", "scroll"}

Hidden == [body |-> "hidden", html |-> "hidden"]

noneOpen == ~overlayOpen /\ ~cartDrawerOpen /\ ~mobileMenuOpen

InitScroll ==
    /\ catalogProducts = <<>>
    /\ SearchParked
    /\ ListingParked
    /\ CartParked
    /\ RouteParked
    /\ OverlayParked
    /\ ChartParked
    /\ FormParked
    /\ SharedParked
    /\ cartDrawerOpen = FALSE
    /\ mobileMenuOpen = FALSE
    /\ overflowStyle \in [body : OverflowValues, html : OverflowValues]
    /\ previousOverflow = [c \in LockingComponents |-> NoOverflow]
    /\ originalOverflow = overflowStyle

notScroll ==
    <<searchVars, listingVars, drawerVars, productPageVars, cartCalls, routeVars, loadVars,
      overlayQuery, overlayResults, overlayLoading, overlaySearches, formVars, chartVars,
      sharedVars, originalOverflow>>

\* the effect of a component whose open flag became true
lockScroll(component) ==
    /\ previousOverflow' = [previousOverflow EXCEPT ![component] = overflowStyle]
    /\ overflowStyle' = Hidden

\* the cleanup of that effect
unlockScroll(component) ==
    /\ overflowStyle' = previousOverflow[component]
    /\ UNCHANGED previousOverflow

\* SearchOverlay: open becomes true (with no catalog and nothing stored the
\* rest of the open effect sets what is already there)
scrollOpenOverlay ==
    /\ ~overlayOpen
    /\ overlayOpen' = TRUE
    /\ lockScroll("SearchOverlay")
    /\ UNCHANGED <<cartDrawerOpen, mobileMenuOpen, notScroll>>

scrollCloseOverlay ==
    /\ overlayOpen
    /\ overlayOpen' = FALSE
    /\ unlockScroll("SearchOverlay")
    /\ UNCHANGED <<cartDrawerOpen, mobileMenuOpen, notScroll>>

\* CartDrawer: open becomes true
openCartDrawer ==
    /\ ~cartDrawerOpen
    /\ cartDrawerOpen' = TRUE
    /\ lockScroll("CartDrawer")
    /\ UNCHANGED <<overlayOpen, mobileMenuOpen, notScroll>>

closeCartDrawer ==
    /\ cartDrawerOpen
    /\ cartDrawerOpen' = FALSE
    /\ unlockScroll("CartDrawer")
    /\ UNCHANGED <<overlayOpen, mobileMenuOpen, notScroll>>

\* Navbar: the menu button, setMobileMenuOpen((prev) => !prev), opening
openMobileMenu ==
    /\ ~mobileMenuOpen
    /\ mobileMenuOpen' = TRUE
    /\ lockScroll("Navbar")
    /\ UNCHANGED <<overlayOpen, cartDrawerOpen, notScroll>>

\* Navbar: setMobileMenuOpen(false) from the menu's buttons and links and
\* from the effect on location.pathname and location.search
closeMobileMenu ==
    /\ mobileMenuOpen
    /\ mobileMenuOpen' = FALSE
    /\ unlockScroll("Navbar")
    /\ UNCHANGED <<overlayOpen, cartDrawerOpen, notScroll>>

\* the Search button of the menu: onSearchClick() and setMobileMenuOpen(false)
\* in one commit, whose cleanups run before its effects
menuSearchClick ==
    /\ mobileMenuOpen
    /\ ~overlayOpen
    /\ mobileMenuOpen' = FALSE
    /\ overlayOpen' = TRUE
    /\ previousOverflow' =
           [previousOverflow EXCEPT !["SearchOverlay"] = previousOverflow["Navbar"]]
    /\ overflowStyle' = Hidden
    /\ UNCHANGED <<cartDrawerOpen, notScroll>>

NextScroll ==
    \/ scrollOpenOverlay
    \/ scrollCloseOverlay
    \/ openCartDrawer
    \/ closeCartDrawer
    \/ openMobileMenu
    \/ closeMobileMenu
    \/ menuSearchClick

\* C22: for any interleaving of opening and closing the search overlay, the
\* cart drawer and the mobile menu, whenever none of the three is open the
\* overflow styles of body and html are what they were before any of them
\* was opened, and whenever at least one is open they are 'hidden'.
C22_ScrollLockReleased ==
    /\ noneOpen => overflowStyle = originalOverflow
    /\ ~noneOpen => overflowStyle = Hidden

\* ------------------------------------------ properties of the chosen size
\* the selection is not what the selection effect leaves for the product on
\* the page, so it was made with a size button
chosenByUser ==
    /\ pageShowsProduct
    /\ selectedSize # Null
    /\ selectedSize # selectionAfterEffect(pageProduct, productSizeOptions(pageProduct),
                                           focusSize, selectedSize)

\* the step leaves the same product on the page
sameProductStays ==
    /\ pageSlug' = pageSlug
    /\ pageProduct' # NullRec
    /\ pageProduct'.handle = pageProduct.handle

aSizeIsSelected == \E size \in PageSizes : selectSize(size)

anAddButtonIsClicked == handleAddToCart \/ handleBuyNow

\* C23: a size the user selected stays the selected size, and is the size
\* passed to addItem, until the user selects another size or the page shows
\* a different product; the freshly fetched copy of the same product does
\* not change it.  Whenever the page shows a product the selected size is
\* null or one of the current size options.
C23_ChosenSizeStays ==
    /\ [][(chosenByUser /\ sameProductStays /\ ~aSizeIsSelected) =>
              selectedSize' = selectedSize]_vars
    /\ [][(chosenByUser /\ anAddButtonIsClicked) =>
              cartCalls'[1].size = selectedSize]_vars
    /\ [](pageShowsProduct =>
              selectedSize = Null \/ selectedSize \in Range(productSizeOptions(pageProduct)))

\* ------------------------------------- properties of the selected sizes
\* the size options of the active category
offeredSizes ==
    Range(sizeOptionsOf(filteredProductsOf(active, catalogProducts, collectionProducts)))

\* the sizes selected after one more click on the size
toggledOnce(sizes, size) ==
    IF \E i \in 1..Len(sizes) : sizes[i] = size
    THEN SelectSeq(sizes, LAMBDA value : value # size)
    ELSE Append(sizes, size)

\* C24: after any sequence of size toggles, resets and category changes
\* every size in selectedSizes is one of the size options of the active
\* category, selectedSizes has no duplicates, and toggling the same size
\* twice restores the previous selection.
C24_SelectedSizesOffered ==
    /\ [](Range(selectedSizes) \subseteq offeredSizes)
    /\ [](noDuplicates(selectedSizes))
    /\ [][\A size \in offeredSizes :
              toggleSize(size) =>
                  /\ selectedSizes' = toggledOnce(selectedSizes, size)
                  /\ Range(toggledOnce(selectedSizes', size)) = Range(selectedSizes)]_vars

\* ========================================================= specifications
SpecSearch == InitSearch /\ [][NextSearch]_vars

SpecListing == InitListing /\ [][NextListing]_vars

SpecCheckout == InitCheckout /\ [][NextCheckout]_vars

SpecCartLines == InitCartLines /\ [][NextCartLines]_vars

\* a rendered <Navigate> always runs its effect
SpecRoute == InitRoute /\ [][NextRoute]_vars /\ WF_vars(NavigateEffect)

\* a promise the current load() awaits always settles
SpecOverlay == InitOverlay /\ [][NextOverlay]_vars

SpecRecent == InitRecent /\ [][NextRecent]_vars

SpecForm == InitForm /\ [][NextForm]_vars

SpecProductLoad == InitProductLoad /\ [][NextProductLoad]_vars /\ WF_vars(LiveLoadSettles)

SpecSizeChart == InitSizeChart /\ [][NextSizeChart]_vars

SpecShared == InitShared /\ [][NextShared]_vars

SpecScroll == InitScroll /\ [][NextScroll]_vars

====
